---- MODULE Spec2Model ----
(***************************************************************************)
(* Model of the incoming-patient-check cron job: the HIYS enrichment       *)
(* client (retry loop, recency filter, enrich), the reconciliation writer  *)
(* with its run statistics, and the retention cleaner.                     *)
(*                                                                         *)
(* Time is an integer number of seconds.  A TransactionDate string is a    *)
(* record [fmt, t]: fmt is the textual shape of the string, t the instant  *)
(* it denotes; the parsers below decide, per call site, which shapes they  *)
(* accept.                                                                 *)
(***************************************************************************)
EXTENDS Integers, Sequences, FiniteSets, TLC

VARIABLES
    rq,     \* one _make_request call: loop position, attempts made, result
    fl,     \* one _filter_recent_transactions call: inputs and output
    en,     \* one enrich_patient_data call: inputs and output
    st,     \* one tenant store under writer and cleaner calls
    pl,     \* the whole run: tenants, enrichment, writes, run result
    tk,     \* one RunStatisticsTracker under recorded outcomes
    cl,     \* one cleaner run over the tenant stores
    vi,     \* the visit maps two processes build for two visit lists
    wb,     \* one save_batch_to_db_optimized call, statement by statement
    rn,     \* one coordinator run: cleanup, then data processing
    ch,     \* one tenant's candidates going through process_batch in chunks
    hw      \* one contact from its enrichment to its write, some time later

vars == <<rq, fl, en, st, pl, tk, cl, vi, wb, rn, ch, hw>>

\* Python's None as a result keyword
NONE == "None"
\* Optional values: None is the empty tuple, a present value x is <<x>>
Nothing == <<>>
Some(x) == <<x>>

(***************************************************************************)
(* Program constants (config/constants.py).                                *)
(***************************************************************************)
DEFAULT_HIYS_MAX_RETRIES == 3
DEFAULT_HIYS_REQUEST_DELAY == 0
HTTP_CLIENT_ERROR_START == 400
HTTP_CLIENT_ERROR_END == 500
RECENT_TRANSACTIONS_DAYS == 90

\* timedelta(days=1) in seconds
SecondsPerDay == 86400

(***************************************************************************)
(* Bounds of the model.                                                    *)
(***************************************************************************)
\* largest max_retries handed to HIYSAPIService(...)
MaxRetriesArg == 3
\* largest request_delay handed to HIYSAPIService(...)
MaxDelayArg == 1
\* longest transaction list handed to the filter
MaxTx == 2

Parked == [pc |-> "off"]

(***************************************************************************)
(* HIYSAPIService._make_request                                            *)
(***************************************************************************)
\* what one session.post(...) + raise_for_status() + json() can do
StatusCodes == {400, 404, 499, 500, 503}
AttemptOutcomes ==
    {[kind |-> k, status |-> 0] : k \in {"ok", "timeout", "conn", "reqexc", "unexpected"}}
    \cup {[kind |-> "http", status |-> s] : s \in StatusCodes}

\* HIYSAPIService.__init__: `max_retries or DEFAULT_HIYS_MAX_RETRIES`
InitMaxRetries(arg) == IF arg = 0 THEN DEFAULT_HIYS_MAX_RETRIES ELSE arg
\* HIYSAPIService.__init__: `request_delay or DEFAULT_HIYS_REQUEST_DELAY`
InitRequestDelay(arg) == IF arg = 0 THEN DEFAULT_HIYS_REQUEST_DELAY ELSE arg

\* truth value of `e.response`: requests.Response.__bool__ is Response.ok,
\* which is False for every status raise_for_status() raises on (>= 400)
ResponseTruthy(status) == status < 400

\* line 79: `e.response and START <= e.response.status_code < END`
ClientErrorBranch(status) ==
    /\ ResponseTruthy(status)
    /\ HTTP_CLIENT_ERROR_START <= status
    /\ status < HTTP_CLIENT_ERROR_END

\* variant: a timeout ends the call at once instead of being retried
AttemptDispositionTimeoutFatal(o, attempt, max_retries) ==
    CASE o.kind = "ok" -> "result"
      [] o.kind = "timeout" -> "none"
      [] o.kind = "http" ->
            IF ClientErrorBranch(o.status) THEN "none"
            ELSE IF attempt = max_retries THEN "none" ELSE "retry"
      [] o.kind = "conn" -> IF attempt = max_retries THEN "none" ELSE "retry"
      [] o.kind = "reqexc" -> IF attempt = max_retries THEN "none" ELSE "retry"
      [] OTHER -> "none"

\* One iteration of the for loop: what the try/except chain decides.
\* "result": return the JSON; "none": return None; "retry": sleep and go on.
AttemptDisposition(o, attempt, max_retries) ==
    CASE o.kind = "ok" -> "result"
      [] o.kind = "timeout" -> IF attempt = max_retries THEN "none" ELSE "retry"
      [] o.kind = "http" ->
            IF ClientErrorBranch(o.status) THEN "none"
            ELSE IF attempt = max_retries THEN "none" ELSE "retry"
      [] o.kind = "conn" -> IF attempt = max_retries THEN "none" ELSE "retry"
      [] o.kind = "reqexc" -> IF attempt = max_retries THEN "none" ELSE "retry"
      [] OTHER -> "none"

\* time.sleep(...) of one iteration: request_delay after a success,
\* request_delay * attempt before a retry, nothing on a return None
AttemptSleep(o, attempt, max_retries, delay) ==
    CASE AttemptDisposition(o, attempt, max_retries) = "result" -> <<delay>>
      [] AttemptDisposition(o, attempt, max_retries) = "retry" -> <<delay * attempt>>
      [] OTHER -> <<>>

\* entry of _make_request on a service built with the given arguments
RequestCall(mr, rd) ==
    /\ rq.pc \in {"idle", "returned"}
    /\ LET m == InitMaxRetries(mr) IN
       rq' = [pc |-> IF m >= 1 THEN "loop" ELSE "returned",
              attempt |-> 1,
              max_retries |-> m,
              request_delay |-> InitRequestDelay(rd),
              hist |-> <<>>,
              sleeps |-> <<>>,
              result |-> IF m >= 1 THEN "unset" ELSE NONE]
    /\ UNCHANGED <<fl, en, st, pl, tk, cl, vi, wb, rn, ch, hw>>

\* one iteration of the retry loop, the HTTP attempt ending as o
RequestAttempt(o) ==
    /\ rq.pc = "loop"
    /\ LET d == AttemptDisposition(o, rq.attempt, rq.max_retries) IN
       rq' = [rq EXCEPT
                !.hist = Append(@, o),
                !.sleeps = @ \o AttemptSleep(o, rq.attempt, rq.max_retries, rq.request_delay),
                !.pc = IF d = "retry" THEN "loop" ELSE "returned",
                !.attempt = IF d = "retry" THEN @ + 1 ELSE @,
                !.result = CASE d = "result" -> "json"
                             [] d = "none" -> NONE
                             [] OTHER -> @]
    /\ UNCHANGED <<fl, en, st, pl, tk, cl, vi, wb, rn, ch, hw>>

RequestInit ==
    /\ rq = [pc |-> "idle", attempt |-> 1, max_retries |-> DEFAULT_HIYS_MAX_RETRIES,
             request_delay |-> DEFAULT_HIYS_REQUEST_DELAY, hist |-> <<>>,
             sleeps |-> <<>>, result |-> "unset"]
    /\ fl = Parked /\ en = Parked /\ st = Parked /\ pl = Parked
    /\ tk = Parked /\ cl = Parked /\ vi = Parked
    /\ wb = Parked /\ rn = Parked /\ ch = Parked /\ hw = Parked

RequestNext ==
    \/ \E mr \in 0..MaxRetriesArg, rd \in 0..MaxDelayArg : RequestCall(mr, rd)
    \/ \E o \in AttemptOutcomes : RequestAttempt(o)

SpecRequest == RequestInit /\ [][RequestNext]_vars

\* the whole call, given what each successive HTTP attempt will do
RECURSIVE MakeRequestFrom(_, _, _)
MakeRequestFrom(oracle, attempt, max_retries) ==
    IF attempt > max_retries \/ attempt > Len(oracle) THEN NONE
    ELSE LET d == AttemptDisposition(oracle[attempt], attempt, max_retries) IN
         CASE d = "result" -> "json"
           [] d = "none" -> NONE
           [] OTHER -> MakeRequestFrom(oracle, attempt + 1, max_retries)

MakeRequest(oracle, max_retries) == MakeRequestFrom(oracle, 1, max_retries)

(***************************************************************************)
(* Claims about _make_request                                              *)
(***************************************************************************)
IsClientErrorOutcome(o) == o.kind = "http" /\ 400 <= o.status /\ o.status <= 499
IsRetryableOutcome(o) ==
    \/ o.kind \in {"timeout", "conn"}
    \/ o.kind = "http" /\ 500 <= o.status /\ o.status <= 599

\* C5: a 4xx response is not retried: the attempt that received it is the
\* call's last one and the call has returned None, whatever max_retries is.
C5_ClientErrorNotRetried ==
    \A k \in 1..Len(rq.hist) :
        IsClientErrorOutcome(rq.hist[k]) =>
            /\ Len(rq.hist) = k
            /\ rq.pc = "returned"
            /\ rq.result = NONE

\* C6: a call makes at most max_retries attempts; a timeout, connection
\* failure or 5xx on attempt k < max_retries is followed by attempt k+1; the
\* first success ends the call with its result; a retryable failure on
\* attempt max_retries ends the call with None.
C6_BoundedRetry ==
    /\ Len(rq.hist) <= rq.max_retries
    /\ rq.pc = "loop" => rq.attempt = Len(rq.hist) + 1 /\ rq.attempt <= rq.max_retries
    /\ rq.pc = "returned" => rq.result \in {"json", NONE}
    /\ \A k \in 1..Len(rq.hist) :
        /\ (IsRetryableOutcome(rq.hist[k]) /\ k < rq.max_retries) =>
              \/ Len(rq.hist) > k
              \/ rq.pc = "loop" /\ rq.attempt = k + 1
        /\ rq.hist[k].kind = "ok" =>
              /\ k = Len(rq.hist)
              /\ rq.pc = "returned"
              /\ rq.result = "json"
        /\ (IsRetryableOutcome(rq.hist[k]) /\ k = rq.max_retries) =>
              /\ rq.pc = "returned"
              /\ rq.result = NONE
    /\ rq.result = "json" => rq.hist[Len(rq.hist)].kind = "ok"

\* a call that used up all its attempts on retryable failures
C6_Witness ==
    /\ rq.pc = "returned"
    /\ rq.max_retries >= 2
    /\ Len(rq.hist) = rq.max_retries
    /\ rq.hist[1].kind = "timeout"
    /\ rq.hist[Len(rq.hist)].kind = "http"
    /\ rq.hist[Len(rq.hist)].status = 503
    /\ rq.result = NONE

(***************************************************************************)
(* HIYSAPIService._filter_recent_transactions                              *)
(***************************************************************************)
\* a TransactionDate string: its shape and the instant it denotes
\*   "T"     2025-09-25T13:15:14      "sp"    2025-09-25 13:15:14
\*   "date"  2025-09-25 (t is that day's midnight)
\*   "empty" the empty string         "junk"  any other text
DateStr(f, t) == [fmt |-> f, t |-> t]
EmptyDate == DateStr("empty", 0)
JunkDate == DateStr("junk", 0)

\* models.Transaction: the date and the doctor; department and branch are
\* carried along with the doctor name everywhere and are not told apart here
Tx(d, dr) == [TransactionDate |-> d, DrName |-> dr]

\* lines 136-141: with a 'T' fromisoformat(s.replace('T', ' ')), otherwise
\* strptime(s, '%Y-%m-%d %H:%M:%S'), which rejects a bare date
ParseFilterDate(d) ==
    CASE d.fmt = "T" -> Some(d.t)
      [] d.fmt = "sp" -> Some(d.t)
      [] OTHER -> Nothing

\* variant: the window's lower bound is exclusive
FilterKeepsOpenStart(tx, start_date, end_date, first_message_date) ==
    IF tx.TransactionDate.fmt = "empty" THEN FALSE
    ELSE LET p == ParseFilterDate(tx.TransactionDate) IN
         IF p = Nothing THEN FALSE
         ELSE IF first_message_date /= Nothing /\ p[1] < first_message_date[1] THEN FALSE
         ELSE start_date < p[1] /\ p[1] <= end_date

\* variant: a visit at the first message's very instant is dropped too
FilterKeepsAfterFirst(tx, start_date, end_date, first_message_date) ==
    IF tx.TransactionDate.fmt = "empty" THEN FALSE
    ELSE LET p == ParseFilterDate(tx.TransactionDate) IN
         IF p = Nothing THEN FALSE
         ELSE IF first_message_date /= Nothing /\ p[1] <= first_message_date[1] THEN FALSE
         ELSE start_date <= p[1] /\ p[1] <= end_date

\* the body of the for loop: TRUE iff the transaction is appended
FilterKeeps(tx, start_date, end_date, first_message_date) ==
    IF tx.TransactionDate.fmt = "empty" THEN FALSE
    ELSE LET p == ParseFilterDate(tx.TransactionDate) IN
         IF p = Nothing THEN FALSE
         ELSE IF first_message_date /= Nothing /\ p[1] < first_message_date[1] THEN FALSE
         ELSE start_date <= p[1] /\ p[1] <= end_date

FilterRecentTransactions(transactions, days_back, first_message_date, now) ==
    IF transactions = <<>> THEN <<>>
    ELSE LET end_date == now
             start_date == end_date - days_back * SecondsPerDay
         IN SelectSeq(transactions,
                      LAMBDA tx : FilterKeeps(tx, start_date, end_date, first_message_date))

\* the instant the filter calls run at
Now0 == 1000 * SecondsPerDay
\* a shorter window than the default, for calls that pass days_back
ShortWindowDays == 10

FilterTimes ==
    {Now0 - 91 * SecondsPerDay, Now0 - 90 * SecondsPerDay - 1, Now0 - 90 * SecondsPerDay,
     Now0 - 10 * SecondsPerDay - 1, Now0 - 10 * SecondsPerDay, Now0, Now0 + 1}
FilterDates ==
    {DateStr(f, t) : f \in {"T", "sp"}, t \in FilterTimes}
    \cup {DateStr("date", Now0 - 10 * SecondsPerDay), DateStr("date", Now0 - 91 * SecondsPerDay)}
    \cup {EmptyDate, JunkDate}
FilterTxs == {Tx(d, "DrA") : d \in FilterDates}
FilterFirstDates ==
    {Nothing, Some(Now0 - 10 * SecondsPerDay), Some(Now0 - 91 * SecondsPerDay), Some(Now0 + 1)}

SeqsUpTo(S, n) == UNION {[1..k -> S] : k \in 0..n}

FilterInit ==
    /\ fl \in [pc : {"input"},
               transactions : SeqsUpTo(FilterTxs, MaxTx),
               days_back : {RECENT_TRANSACTIONS_DAYS, ShortWindowDays},
               first_message_date : FilterFirstDates,
               now : {Now0},
               out : {<<>>}]
    /\ rq = Parked /\ en = Parked /\ st = Parked /\ pl = Parked
    /\ tk = Parked /\ cl = Parked /\ vi = Parked
    /\ wb = Parked /\ rn = Parked /\ ch = Parked /\ hw = Parked

FilterApply ==
    /\ fl.pc = "input"
    /\ fl' = [fl EXCEPT
                !.pc = "done",
                !.out = FilterRecentTransactions(fl.transactions, fl.days_back,
                                                 fl.first_message_date, fl.now)]
    /\ UNCHANGED <<rq, en, st, pl, tk, cl, vi, wb, rn, ch, hw>>

FilterNext == FilterApply

SpecFilter == FilterInit /\ [][FilterNext]_vars

(***************************************************************************)
(* Claims about the window filter                                          *)
(***************************************************************************)
InSeq(x, s) == \E i \in 1..Len(s) : s[i] = x
\* the filter's own notion of a parsable timestamp
HasParsableDate(tx) == tx.TransactionDate.fmt \in {"T", "sp"}
InWindow(t, now, days) == now - days * SecondsPerDay <= t /\ t <= now
NotBeforeFirst(t, first) == first = Nothing \/ t >= first[1]

\* C8: a visit with a parsable timestamp t is kept iff
\* now - R days <= t <= now and, when the first-contact timestamp is known,
\* t >= firstContactTimestamp.
C8_WindowFilter ==
    fl.pc = "done" =>
        \A i \in 1..Len(fl.transactions) :
            LET tx == fl.transactions[i] IN
            HasParsableDate(tx) =>
                (InSeq(tx, fl.out) <=>
                    /\ InWindow(tx.TransactionDate.t, fl.now, fl.days_back)
                    /\ NotBeforeFirst(tx.TransactionDate.t, fl.first_message_date))

\* R = 90, no first contact: now-90d kept, now-91d dropped
C8_Witness ==
    /\ fl.pc = "done"
    /\ fl.days_back = 90
    /\ fl.first_message_date = Nothing
    /\ fl.transactions = <<Tx(DateStr("T", Now0 - 91 * SecondsPerDay), "DrA"),
                           Tx(DateStr("T", Now0 - 90 * SecondsPerDay), "DrA")>>
    /\ fl.out = <<Tx(DateStr("T", Now0 - 90 * SecondsPerDay), "DrA")>>

\* C9: with firstContactTimestamp = T known, a visit before T is dropped even
\* inside the recency window and a visit at or after T inside the window is
\* kept; with no firstContactTimestamp every visit inside the window is kept.
C9_FirstContactGating ==
    fl.pc = "done" =>
        \A i \in 1..Len(fl.transactions) :
            LET tx == fl.transactions[i]
                t == tx.TransactionDate.t
            IN HasParsableDate(tx) =>
                /\ (fl.first_message_date /= Nothing /\ t < fl.first_message_date[1])
                        => ~InSeq(tx, fl.out)
                /\ (fl.first_message_date /= Nothing /\ t >= fl.first_message_date[1]
                        /\ InWindow(t, fl.now, fl.days_back)) => InSeq(tx, fl.out)
                /\ (fl.first_message_date = Nothing /\ InWindow(t, fl.now, fl.days_back))
                        => InSeq(tx, fl.out)

\* T = now-10d: the visit at T-1s is dropped, the visit at T is kept
C9_Witness ==
    /\ fl.pc = "done"
    /\ fl.days_back = 90
    /\ fl.first_message_date = Some(Now0 - 10 * SecondsPerDay)
    /\ fl.transactions = <<Tx(DateStr("T", Now0 - 10 * SecondsPerDay - 1), "DrA"),
                           Tx(DateStr("T", Now0 - 10 * SecondsPerDay), "DrA")>>
    /\ fl.out = <<Tx(DateStr("T", Now0 - 10 * SecondsPerDay), "DrA")>>

(***************************************************************************)
(* DatabaseService.get_first_message_date_for_patient and                  *)
(* HIYSAPIService.get_patient_details / get_patient_transactions /         *)
(* enrich_patient_data                                                     *)
(***************************************************************************)
SetMin(S) == CHOOSE x \in S : \A y \in S : x <= y

\* db: "ok", "disconnected" (connection missing or closed) or "queryerror"
\* (cursor.execute raises); chat: the patient's non-NULL chatlist.dateTime
\* values.  MIN(dateTime) of no rows is NULL.
GetFirstMessageDate(db, chat) ==
    IF db = "disconnected" THEN Nothing
    ELSE IF db = "queryerror" THEN Nothing
    ELSE IF chat = {} THEN Nothing
    ELSE Some(SetMin(chat))

\* int(s) succeeds
IsNumeric(s) == s \in {"14", "15", "1001", "1002"}

\* An endpoint's JSON body, by what the parsing code tells apart.
\*   identity: "error" {error: true, message}, "patients" {patients: [...]},
\*             "nokey" (no patients key), "invalid" (fails model validation)
\*   history:  "transactions" {transactions: [...], total_count},
\*             "nokey", "invalid"
GetPatientDetails(oracle, body, max_retries) ==
    IF MakeRequest(oracle, max_retries) = NONE THEN Nothing
    ELSE IF body.kind = "error" THEN Nothing
    ELSE IF body.kind = "patients" /\ body.patients /= <<>>
         THEN Some([patients |-> body.patients])
    ELSE Nothing

\* variant: the ids are passed on without the int() conversion
GetPatientTransactionsUnchecked(app_id, upn, oracle, body, max_retries) ==
    IF MakeRequest(oracle, max_retries) = NONE THEN Nothing
    ELSE IF body.kind = "transactions"
         THEN Some([transactions |-> body.transactions,
                    total_count |-> Len(body.transactions)])
    ELSE Nothing

GetPatientTransactions(app_id, upn, oracle, body, max_retries) ==
    IF ~IsNumeric(app_id) \/ ~IsNumeric(upn) THEN Nothing
    ELSE IF MakeRequest(oracle, max_retries) = NONE THEN Nothing
    ELSE IF body.kind = "transactions"
         THEN Some([transactions |-> body.transactions,
                    total_count |-> Len(body.transactions)])
    ELSE Nothing

\* ext: what the outside world answers during this call
\*   db (or "absent": the service was built without a database service),
\*   chat, idOracle, idBody, txOracle, txBody
EnrichPatientData(patient_data, app_id, ext, max_retries, now) ==
    LET first_message_date ==
            IF ext.db = "absent" THEN Nothing
            ELSE GetFirstMessageDate(ext.db, ext.chat)
        patient_details_response == GetPatientDetails(ext.idOracle, ext.idBody, max_retries)
    IN
    IF patient_details_response = Nothing THEN Nothing
    ELSE
    LET patient_detail == patient_details_response[1].patients[1]
        transactions_response ==
            GetPatientTransactions(app_id, patient_detail.UPN, ext.txOracle, ext.txBody,
                                   max_retries)
    IN
    IF transactions_response = Nothing \/ transactions_response[1].transactions = <<>>
    THEN Nothing
    ELSE
    LET recent_transactions ==
            FilterRecentTransactions(transactions_response[1].transactions,
                                     RECENT_TRANSACTIONS_DAYS, first_message_date, now)
    IN
    IF recent_transactions = <<>> THEN Nothing
    ELSE Some([userPatientId |-> patient_data.userPatientId,
               chatType |-> patient_data.chatType,
               language |-> patient_data.language,
               phoneNumber |-> patient_data.phoneNumber,
               patientDetails |-> Some(patient_detail),
               transactions |-> recent_transactions,
               transactionCount |-> Len(recent_transactions),
               patientFound |-> TRUE,
               transactionsFound |-> TRUE,
               ilkMesajTarihi |-> first_message_date])

\* --- inputs of the enrich calls explored ---
PatientData(id) ==
    [userPatientId |-> id, chatType |-> "whatsapp", language |-> "TR",
     phoneNumber |-> "90555000" ]
PatientDetail(upn) == [UPN |-> upn, Name |-> "N"]

Ok == [kind |-> "ok", status |-> 0]
Timeout == [kind |-> "timeout", status |-> 0]
Http(s) == [kind |-> "http", status |-> s]
\* what the successive HTTP attempts of one call do
Oracles ==
    {<<Ok>>, <<Timeout, Timeout, Timeout>>, <<Http(503), Ok>>, <<Http(404), Http(404), Http(404)>>}

EnrichTxs ==
    {Tx(DateStr("T", Now0 - 91 * SecondsPerDay), "DrA"),
     Tx(DateStr("T", Now0 - 10 * SecondsPerDay), "DrB"),
     Tx(DateStr("sp", Now0 - 1 * SecondsPerDay), "DrC"),
     Tx(JunkDate, "DrD")}
IdBodies ==
    {[kind |-> "error", patients |-> <<>>],
     [kind |-> "nokey", patients |-> <<>>],
     [kind |-> "invalid", patients |-> <<>>],
     [kind |-> "patients", patients |-> <<>>],
     [kind |-> "patients", patients |-> <<PatientDetail("1001")>>],
     [kind |-> "patients", patients |-> <<PatientDetail("1002"), PatientDetail("1001")>>],
     [kind |-> "patients", patients |-> <<PatientDetail("P-7")>>]}
TxBodies ==
    {[kind |-> "nokey", transactions |-> <<>>],
     [kind |-> "invalid", transactions |-> <<>>]}
    \cup {[kind |-> "transactions", transactions |-> l] : l \in SeqsUpTo(EnrichTxs, MaxTx)}
ChatLogs ==
    {{}, {Now0 - 5 * SecondsPerDay}, {Now0 - 5 * SecondsPerDay, Now0 - 200 * SecondsPerDay}}

EnrichInit ==
    /\ en \in [pc : {"input"},
               patient_data : {PatientData(1)},
               app_id : {"14"},
               ext : [db : {"absent", "disconnected", "queryerror", "ok"},
                      chat : ChatLogs,
                      idOracle : Oracles, idBody : IdBodies,
                      txOracle : Oracles, txBody : TxBodies],
               now : {Now0},
               out : {Nothing}]
    /\ rq = Parked /\ fl = Parked /\ st = Parked /\ pl = Parked
    /\ tk = Parked /\ cl = Parked /\ vi = Parked
    /\ wb = Parked /\ rn = Parked /\ ch = Parked /\ hw = Parked

EnrichCall ==
    /\ en.pc = "input"
    /\ en' = [en EXCEPT
                !.pc = "done",
                !.out = EnrichPatientData(en.patient_data, en.app_id, en.ext,
                                          DEFAULT_HIYS_MAX_RETRIES, en.now)]
    /\ UNCHANGED <<rq, fl, st, pl, tk, cl, vi, wb, rn, ch, hw>>

EnrichNext == EnrichCall

SpecEnrich == EnrichInit /\ [][EnrichNext]_vars

(***************************************************************************)
(* Claims about enrich_patient_data                                        *)
(***************************************************************************)
\* the identity endpoint answered (some attempt within the budget succeeded)
\* with a body holding at least one valid identity
IdentityFoundIn(e) ==
    /\ \E k \in 1..DEFAULT_HIYS_MAX_RETRIES :
          /\ k <= Len(e.idOracle)
          /\ e.idOracle[k].kind = "ok"
          /\ \A j \in 1..(k - 1) : e.idOracle[j].kind /= "ok"
    /\ e.idBody.kind = "patients"
    /\ e.idBody.patients /= <<>>
\* the history endpoint answered with a body holding a transaction list
HistoryOf(e) ==
    IF /\ IsNumeric(e.idBody.patients[1].UPN)
       /\ \E k \in 1..DEFAULT_HIYS_MAX_RETRIES :
             k <= Len(e.txOracle) /\ e.txOracle[k].kind = "ok"
       /\ e.txBody.kind = "transactions"
    THEN e.txBody.transactions
    ELSE <<>>
FirstContactOf(e) ==
    IF e.db = "ok" /\ e.chat /= {} THEN Some(SetMin(e.chat)) ELSE Nothing
FilteredHistoryOf(e, now) ==
    FilterRecentTransactions(HistoryOf(e), RECENT_TRANSACTIONS_DAYS, FirstContactOf(e), now)

\* C10: enrich returns None when the identity lookup yields no identity or a
\* structured error, the history lookup is empty, or the window-filtered
\* history is empty; otherwise it returns an EnrichedContact with
\* identityFound and historyFound true and the filtered history, non-empty,
\* as its visits.
C10_EnrichResult ==
    en.pc = "done" =>
        IF \/ ~IdentityFoundIn(en.ext)
           \/ HistoryOf(en.ext) = <<>>
           \/ FilteredHistoryOf(en.ext, en.now) = <<>>
        THEN en.out = Nothing
        ELSE /\ en.out /= Nothing
             /\ en.out[1].patientFound
             /\ en.out[1].transactionsFound
             /\ en.out[1].transactions /= <<>>
             /\ en.out[1].transactions = FilteredHistoryOf(en.ext, en.now)
             /\ en.out[1].transactionCount = Len(en.out[1].transactions)
             /\ en.out[1].patientDetails = Some(en.ext.idBody.patients[1])
             /\ en.out[1].userPatientId = en.patient_data.userPatientId

\* a contact enriched after a retried call, with one of its two visits
\* filtered out by the first-contact gate
C10_Witness ==
    /\ en.pc = "done"
    /\ en.ext.idOracle = <<Http(503), Ok>>
    /\ en.ext.db = "ok"
    /\ en.ext.chat = {Now0 - 5 * SecondsPerDay}
    /\ en.ext.txBody.transactions =
          <<Tx(DateStr("T", Now0 - 10 * SecondsPerDay), "DrB"),
            Tx(DateStr("sp", Now0 - 1 * SecondsPerDay), "DrC")>>
    /\ en.out /= Nothing
    /\ en.out[1].transactions = <<Tx(DateStr("sp", Now0 - 1 * SecondsPerDay), "DrC")>>

(***************************************************************************)
(* RunStatisticsTracker                                                    *)
(***************************************************************************)
StatsReset ==
    [new_records |-> 0, updated_records |-> 0, skipped_records |-> 0,
     failed_records |-> 0, total_processed |-> 0]
AddNew(s, count) ==
    [s EXCEPT !.new_records = @ + count, !.total_processed = @ + count]
\* variant: an update is not counted into the total
AddUpdatedUntotalled(s, count) ==
    [s EXCEPT !.updated_records = @ + count]
AddUpdated(s, count) ==
    [s EXCEPT !.updated_records = @ + count, !.total_processed = @ + count]
AddSkipped(s, count) ==
    [s EXCEPT !.skipped_records = @ + count, !.total_processed = @ + count]
AddFailed(s, count) ==
    [s EXCEPT !.failed_records = @ + count, !.total_processed = @ + count]
GetStats(s) ==
    [new_records |-> s.new_records, updated_records |-> s.updated_records,
     skipped_records |-> s.skipped_records, failed_records |-> s.failed_records,
     total_processed |-> s.total_processed]

\* One tracker under any sequence of calls.  tk.calls lists the add_* calls
\* made since the last reset, in order.
MaxCalls == 5
MaxCount == 2

StatsInit ==
    /\ tk = [pc |-> "on", stats |-> StatsReset, calls |-> <<>>, n |-> 0]
    /\ rq = Parked /\ fl = Parked /\ en = Parked /\ st = Parked
    /\ pl = Parked /\ cl = Parked /\ vi = Parked
    /\ wb = Parked /\ rn = Parked /\ ch = Parked /\ hw = Parked

StatsCall(kind, count, after) ==
    /\ tk.n < MaxCalls
    /\ tk' = [tk EXCEPT !.stats = after,
                        !.calls = Append(@, [kind |-> kind, count |-> count]),
                        !.n = @ + 1]
    /\ UNCHANGED <<rq, fl, en, st, pl, cl, vi, wb, rn, ch, hw>>

StatsAddNew(count) == StatsCall("new", count, AddNew(tk.stats, count))
StatsAddUpdated(count) == StatsCall("updated", count, AddUpdated(tk.stats, count))
StatsAddSkipped(count) == StatsCall("skipped", count, AddSkipped(tk.stats, count))
StatsAddFailed(count) == StatsCall("failed", count, AddFailed(tk.stats, count))

StatsResetCall ==
    /\ tk.n < MaxCalls
    /\ tk.calls /= <<>>
    /\ tk' = [tk EXCEPT !.stats = StatsReset, !.calls = <<>>, !.n = @ + 1]
    /\ UNCHANGED <<rq, fl, en, st, pl, cl, vi, wb, rn, ch, hw>>

StatsNext ==
    \/ \E count \in 0..MaxCount : StatsAddNew(count)
    \/ \E count \in 0..MaxCount : StatsAddUpdated(count)
    \/ \E count \in 0..MaxCount : StatsAddSkipped(count)
    \/ \E count \in 0..MaxCount : StatsAddFailed(count)
    \/ StatsResetCall

SpecStats == StatsInit /\ [][StatsNext]_vars

\* the counts recorded for one kind by a list of calls, added up
RECURSIVE Recorded(_, _)
Recorded(calls, kind) ==
    IF calls = <<>> THEN 0
    ELSE (IF calls[1].kind = kind THEN calls[1].count ELSE 0)
         + Recorded(Tail(calls), kind)

\* C13: after any sequence of add_* calls since the last reset, each counter
\* of the snapshot is the sum of the counts recorded for its kind and
\* total_processed is the sum of the four counters.
C13_SnapshotSums ==
    tk.pc = "on" =>
        LET snap == GetStats(tk.stats) IN
        /\ snap.new_records = Recorded(tk.calls, "new")
        /\ snap.updated_records = Recorded(tk.calls, "updated")
        /\ snap.skipped_records = Recorded(tk.calls, "skipped")
        /\ snap.failed_records = Recorded(tk.calls, "failed")
        /\ snap.total_processed = snap.new_records + snap.updated_records
                                  + snap.skipped_records + snap.failed_records

\* (2 inserted, 1 updated), then (0, 0), then (1 inserted): 3, 1 and 4
C13_Witness ==
    /\ tk.pc = "on"
    /\ tk.calls = <<[kind |-> "new", count |-> 2], [kind |-> "updated", count |-> 1],
                    [kind |-> "new", count |-> 0], [kind |-> "updated", count |-> 0],
                    [kind |-> "new", count |-> 1]>>
    /\ GetStats(tk.stats).new_records = 3
    /\ GetStats(tk.stats).updated_records = 1
    /\ GetStats(tk.stats).total_processed = 4

(***************************************************************************)
(* DatabaseSaveService._save_patient_data_to_db                            *)
(*                                                                         *)
(* A table is the set of rows of incomingpatientshiys one connection sees; *)
(* every row has its own auto-increment id.                                *)
(***************************************************************************)
\* datetime.fromisoformat(s.replace('T', ' ').split('.')[0]): accepts both
\* separators and a bare date (midnight); used by the writer and the cleaner
ParseIsoDate(d) ==
    CASE d.fmt \in {"T", "sp", "date"} -> Some(d.t)
      [] OTHER -> Nothing

\* lines 751-763: the writer's own 90-day filter (no upper bound, no
\* first-message gate; an empty or unparsable date drops the transaction)
WriterKeeps(tx, cutoff_date) ==
    IF tx.TransactionDate.fmt = "empty" THEN FALSE
    ELSE LET p == ParseIsoDate(tx.TransactionDate) IN
         IF p = Nothing THEN FALSE ELSE p[1] >= cutoff_date

\* Python's str ordering of two TransactionDate strings that parse: the
\* date part first, then the separator (end of string < ' ' < 'T'), then
\* the time of day
FmtRank(f) == CASE f = "date" -> 0 [] f = "sp" -> 1 [] OTHER -> 2
StrLess(a, b) ==
    LET da == a.t \div SecondsPerDay
        db == b.t \div SecondsPerDay
    IN \/ da < db
       \/ da = db /\ FmtRank(a.fmt) < FmtRank(b.fmt)
       \/ da = db /\ FmtRank(a.fmt) = FmtRank(b.fmt)
             /\ (a.t % SecondsPerDay) < (b.t % SecondsPerDay)

\* max(transactions, key=lambda x: x.TransactionDate or ''): the first of
\* the greatest elements
RECURSIVE MaxByDateStr(_, _, _)
MaxByDateStr(txs, i, best) ==
    IF i > Len(txs) THEN best
    ELSE MaxByDateStr(txs, i + 1,
                      IF StrLess(best.TransactionDate, txs[i].TransactionDate)
                      THEN txs[i] ELSE best)
LatestTransaction(txs) == MaxByDateStr(txs, 2, txs[1])

\* f"tx_{i}_{hash(f'{date}_{dr}') % 100000}": the position in the kept list
\* and the salted hash of (date, doctor); seed is the interpreter's hash salt
TransactionId(i, tx, seed) ==
    [i |-> i, h |-> <<seed, tx.TransactionDate, tx.DrName>>]

\* dict[key] = value on a dict kept as its sequence of items
DictSet(d, k, v) ==
    IF \E j \in 1..Len(d) : d[j].key = k
    THEN [j \in 1..Len(d) |-> IF d[j].key = k THEN [key |-> k, val |-> v] ELSE d[j]]
    ELSE Append(d, [key |-> k, val |-> v])

\* lines 827-850: the visit map, built by enumerate(transactions)
RECURSIVE TransactionsDictFrom(_, _, _, _)
TransactionsDictFrom(txs, i, seed, acc) ==
    IF i > Len(txs) THEN acc
    ELSE TransactionsDictFrom(txs, i + 1, seed,
            DictSet(acc, TransactionId(i - 1, txs[i], seed),
                    [TransactionDate |-> txs[i].TransactionDate,
                     DrName |-> txs[i].DrName]))
TransactionsDict(txs, seed) == TransactionsDictFrom(txs, 1, seed, <<>>)

\* `x or default` on an optional string: None and '' are both falsy
OrDefault(x, d) == IF x = NONE \/ x = "" THEN d ELSE x

\* variant: the existence check finds nothing
MatchingRowsBlind(table, app_id, userPatientId) == {}

\* the SELECT of lines 869-875
MatchingRows(table, app_id, userPatientId) ==
    {r \in table : r.userPatientId = userPatientId /\ r.appId = app_id}

\* variant: a contact that is skipped has its stale row removed
ReturnWithoutStatementPurging(table, nextId, app_id, patient, action, ok) ==
    [table |-> table \ MatchingRows(table, app_id, patient.userPatientId),
     nextId |-> nextId, result |-> ok, action |-> action, unread |-> FALSE]

\* `return ok, action` with no INSERT or UPDATE issued for the contact
ReturnWithoutStatement(table, nextId, app_id, patient, action, ok) ==
    [table |-> table, nextId |-> nextId, result |-> ok, action |-> action,
     unread |-> FALSE]

\* variant: the two lookup flags are not looked at
QualitySkipIgnoringFlags(patient) ==
    \/ patient.transactions = <<>>
    \/ patient.patientDetails = Nothing

\* lines 736-749: the contact is skipped before its visits are looked at
QualitySkip(patient) ==
    \/ ~patient.patientFound
    \/ ~patient.transactionsFound \/ patient.transactions = <<>>
    \/ patient.patientDetails = Nothing

\* variant: the UPDATE also writes the contact's phone number and language
UpdatedRowWithContact(r, dt, patient, transactions, seed) ==
    LET latest == LatestTransaction(transactions)
    IN [r EXCEPT !.processTimestamp = dt,
                 !.phoneNumber = patient.phoneNumber,
                 !.language = OrDefault(patient.language, "TR"),
                 !.toplamIslemSayisi = Len(transactions),
                 !.hiysHastaBulundu = patient.patientFound,
                 !.hiysIslemBulundu = patient.transactionsFound,
                 !.sonIslemTarihi = ParseIsoDate(latest.TransactionDate),
                 !.sonDoktorAdi = Some(latest.DrName),
                 !.ilkMesajTarihi = patient.ilkMesajTarihi,
                 !.transactionDetails = Some(TransactionsDict(transactions, seed))]

\* the SET list of the UPDATE (lines 879-900) applied to a matching row
UpdatedRow(r, dt, patient, transactions, seed) ==
    LET latest == LatestTransaction(transactions)
    IN [r EXCEPT !.processTimestamp = dt,
                 !.toplamIslemSayisi = Len(transactions),
                 !.hiysHastaBulundu = patient.patientFound,
                 !.hiysIslemBulundu = patient.transactionsFound,
                 !.sonIslemTarihi = ParseIsoDate(latest.TransactionDate),
                 !.sonDoktorAdi = Some(latest.DrName),
                 !.ilkMesajTarihi = patient.ilkMesajTarihi,
                 !.transactionDetails = Some(TransactionsDict(transactions, seed))]

\* the row of the INSERT (lines 918-962)
InsertedRow(id, dt, app_id, patient, transactions, seed) ==
    LET latest == LatestTransaction(transactions)
    IN [id |-> id,
        appId |-> app_id,
        userPatientId |-> patient.userPatientId,
        processTimestamp |-> dt,
        chatType |-> OrDefault(patient.chatType, "whatsapp"),
        language |-> OrDefault(patient.language, "TR"),
        phoneNumber |-> patient.phoneNumber,
        hiysUpn |-> patient.patientDetails[1].UPN,
        hiysHastaBulundu |-> patient.patientFound,
        hiysIslemBulundu |-> patient.transactionsFound,
        toplamIslemSayisi |-> Len(transactions),
        sonIslemTarihi |-> ParseIsoDate(latest.TransactionDate),
        sonDoktorAdi |-> Some(latest.DrName),
        ilkMesajTarihi |-> patient.ilkMesajTarihi,
        transactionDetails |-> Some(TransactionsDict(transactions, seed))]

\* The existence check and the UPDATE or INSERT that follows it.  The
\* cursor of connection.cursor() is not buffered: fetchone() on a SELECT
\* that found two rows or more leaves a result unread, the execute of the
\* UPDATE raises on it and the except block of line 986 returns
\* (False, 'failed') with no row changed; unread tells that the connection
\* is left with the unread result.
WriteRow(table, nextId, dt, app_id, patient, transactions, seed, existing) ==
    IF Cardinality(existing) > 1
    THEN [table |-> table, nextId |-> nextId, result |-> FALSE, action |-> "failed",
          unread |-> TRUE]
    ELSE IF existing /= {}
    THEN [table |-> {IF r \in existing
                     THEN UpdatedRow(r, dt, patient, transactions, seed)
                     ELSE r : r \in table},
          nextId |-> nextId,
          result |-> TRUE,
          action |-> "updated",
          unread |-> FALSE]
    ELSE [table |-> table \cup
                    {InsertedRow(nextId, dt, app_id, patient, transactions, seed)},
          nextId |-> nextId + 1,
          result |-> TRUE,
          action |-> "inserted",
          unread |-> FALSE]

\* the contact's visits of the last 90 days, in the order received
RecentTransactions(patient, now) ==
    SelectSeq(patient.transactions,
              LAMBDA tx : WriterKeeps(tx, now - 90 * SecondsPerDay))

\* One call.  rejected: the store refuses this contact's statement (execute
\* raises, as it does on a connection with an unread result, or rowcount is
\* not 1); the statement then changes nothing.
\* Returns the table as the connection now sees it, the next id, and the
\* (result, action) pair.
SavePatientDataToDb(table, nextId, dt, app_id, patient, now, seed, rejected) ==
    IF QualitySkip(patient)
    THEN ReturnWithoutStatement(table, nextId, app_id, patient, "skipped", TRUE)
    ELSE IF RecentTransactions(patient, now) = <<>>
    THEN ReturnWithoutStatement(table, nextId, app_id, patient, "skipped", TRUE)
    ELSE IF rejected
    THEN ReturnWithoutStatement(table, nextId, app_id, patient, "failed", FALSE)
    ELSE WriteRow(table, nextId, dt, app_id, patient, RecentTransactions(patient, now),
                  seed, MatchingRows(table, app_id, patient.userPatientId))

(***************************************************************************)
(* DatabaseSaveService.save_batch_to_db_optimized                          *)
(***************************************************************************)
\* What the store does during one call:
\*   conn    "ok", "refused" (connect raises) or "lost" (the connection
\*           drops once `at` contacts have been handled: every later
\*           statement, the commit and the rollback raise)
\*   rejects positions of the batch whose statement the store refuses
\*   commit  "ok" or "fail" (commit raises, the rollback works)
BatchModes(n) ==
    {[conn |-> "refused", at |-> 0, rejects |-> {}, commit |-> "ok"]}
    \cup {[conn |-> "lost", at |-> k, rejects |-> {}, commit |-> "fail"] : k \in 0..n}
    \cup {[conn |-> "ok", at |-> n, rejects |-> R, commit |-> c] :
            R \in SUBSET (1..n), c \in {"ok", "fail"}}

Counts0 == [new |-> 0, updated |-> 0, skipped |-> 0, failed |-> 0]

\* variant: a skipped contact is counted for the caller only
RECURSIVE SaveBatchLoopSkipUntracked(_, _, _, _, _, _, _, _)
SaveBatchLoopSkipUntracked(acc, patients, i, dt, app_id, now, seed, mode) ==
    IF i > Len(patients) THEN acc
    ELSE
    LET rejected == \/ i \in mode.rejects
                    \/ mode.conn = "lost" /\ i > mode.at
                    \/ acc.unread
        r == SavePatientDataToDb(acc.table, acc.nextId, dt, app_id, patients[i],
                                 now, seed, rejected)
        kind == IF r.result THEN r.action ELSE "failed"
    IN SaveBatchLoopSkipUntracked(
          [table |-> r.table,
           nextId |-> r.nextId,
           counts |-> CASE kind = "inserted" -> [acc.counts EXCEPT !.new = @ + 1]
                        [] kind = "updated" -> [acc.counts EXCEPT !.updated = @ + 1]
                        [] kind = "skipped" -> [acc.counts EXCEPT !.skipped = @ + 1]
                        [] OTHER -> [acc.counts EXCEPT !.failed = @ + 1],
           stats |-> CASE kind = "inserted" -> AddNew(acc.stats, 1)
                       [] kind = "updated" -> AddUpdated(acc.stats, 1)
                       [] kind = "skipped" -> acc.stats
                       [] OTHER -> AddFailed(acc.stats, 1),
           outcomes |-> Append(acc.outcomes, kind),
           unread |-> acc.unread \/ r.unread],
          patients, i + 1, dt, app_id, now, seed, mode)

\* the for loop of lines 611-645, from position i on; acc.unread: an
\* earlier contact left a result unread on the connection, and every
\* statement after it raises
RECURSIVE SaveBatchLoop(_, _, _, _, _, _, _, _)
SaveBatchLoop(acc, patients, i, dt, app_id, now, seed, mode) ==
    IF i > Len(patients) THEN acc
    ELSE
    LET rejected == \/ i \in mode.rejects
                    \/ mode.conn = "lost" /\ i > mode.at
                    \/ acc.unread
        r == SavePatientDataToDb(acc.table, acc.nextId, dt, app_id, patients[i],
                                 now, seed, rejected)
        kind == IF r.result THEN r.action ELSE "failed"
    IN SaveBatchLoop(
          [table |-> r.table,
           nextId |-> r.nextId,
           counts |-> CASE kind = "inserted" -> [acc.counts EXCEPT !.new = @ + 1]
                        [] kind = "updated" -> [acc.counts EXCEPT !.updated = @ + 1]
                        [] kind = "skipped" -> [acc.counts EXCEPT !.skipped = @ + 1]
                        [] OTHER -> [acc.counts EXCEPT !.failed = @ + 1],
           stats |-> CASE kind = "inserted" -> AddNew(acc.stats, 1)
                       [] kind = "updated" -> AddUpdated(acc.stats, 1)
                       [] kind = "skipped" -> AddSkipped(acc.stats, 1)
                       [] OTHER -> AddFailed(acc.stats, 1),
           outcomes |-> Append(acc.outcomes, kind),
           unread |-> acc.unread \/ r.unread],
          patients, i + 1, dt, app_id, now, seed, mode)

\* The whole call on the committed table.  ret is Some(counts), or Nothing
\* when the call itself raises (the rollback of a lost connection).  With a
\* result left unread, connection.commit() raises and the except block
\* rolls the batch back.
SaveBatchToDbOptimized(table, nextId, stats, dt, app_id, patients, now, seed, mode) ==
    IF mode.conn = "refused"
    THEN [table |-> table, nextId |-> nextId, stats |-> stats, ret |-> Some(Counts0),
          outcomes |-> <<>>, committed |-> FALSE, unread |-> FALSE]
    ELSE
    LET acc == SaveBatchLoop([table |-> table, nextId |-> nextId, counts |-> Counts0,
                              stats |-> stats, outcomes |-> <<>>, unread |-> FALSE],
                             patients, 1, dt, app_id, now, seed, mode)
        commits == mode.conn = "ok" /\ mode.commit = "ok" /\ ~acc.unread
    IN [table |-> IF commits THEN acc.table ELSE table,
        nextId |-> acc.nextId,
        stats |-> acc.stats,
        ret |-> IF mode.conn = "lost" THEN Nothing ELSE Some(acc.counts),
        outcomes |-> acc.outcomes,
        committed |-> commits,
        unread |-> acc.unread]

(***************************************************************************)
(* DataCleanupService                                                      *)
(***************************************************************************)
CLEANUP_DAYS == 90

\* __init__: cutoff_date = now - timedelta(days=cleanup_days)
CutoffDate(now) == now - CLEANUP_DAYS * SecondsPerDay

\* variant: a row dated at the cutoff is deleted as well
OldSingleTransactionRowsInclusive(table, cutoff_date) ==
    {r \in table : /\ r.toplamIslemSayisi = 1
                   /\ r.sonIslemTarihi /= Nothing
                   /\ r.sonIslemTarihi[1] <= cutoff_date}

\* Phase A (_delete_old_single_transaction_records): the rows the DELETE hits
OldSingleTransactionRows(table, cutoff_date) ==
    {r \in table : /\ r.toplamIslemSayisi = 1
                   /\ r.sonIslemTarihi /= Nothing
                   /\ r.sonIslemTarihi[1] < cutoff_date}

\* variant: an entry is kept only when it has a date not before the cutoff
CleanerKeepsDatedOnly(item, cutoff_date) ==
    IF item.val.TransactionDate.fmt = "empty" THEN FALSE
    ELSE LET p == ParseIsoDate(item.val.TransactionDate) IN
         IF p = Nothing THEN FALSE ELSE p[1] >= cutoff_date

\* _clean_transactions_for_record: an entry of the map is kept when it has
\* no date, when its date does not parse, or when it is not before the cutoff
CleanerKeeps(item, cutoff_date) ==
    IF item.val.TransactionDate.fmt = "empty" THEN TRUE
    ELSE LET p == ParseIsoDate(item.val.TransactionDate) IN
         IF p = Nothing THEN TRUE ELSE p[1] >= cutoff_date

\* the running `latest_date is None or trans_date > latest_date` over the
\* variant: the summary is taken from the last kept entry with a date
RECURSIVE LatestKeptLast(_, _, _)
LatestKeptLast(items, i, best) ==
    IF i > Len(items) THEN best
    ELSE LET p == IF items[i].val.TransactionDate.fmt = "empty" THEN Nothing
                  ELSE ParseIsoDate(items[i].val.TransactionDate)
         IN LatestKeptLast(items, i + 1,
                IF p /= Nothing
                THEN Some([date |-> p[1], item |-> items[i]])
                ELSE best)

\* kept entries that have a parsed date; Nothing when there is none
RECURSIVE LatestKept(_, _, _)
LatestKept(items, i, best) ==
    IF i > Len(items) THEN best
    ELSE LET p == IF items[i].val.TransactionDate.fmt = "empty" THEN Nothing
                  ELSE ParseIsoDate(items[i].val.TransactionDate)
         IN LatestKept(items, i + 1,
                IF p /= Nothing /\ (best = Nothing \/ p[1] > best[1].date)
                THEN Some([date |-> p[1], item |-> items[i]])
                ELSE best)

\* variant: the pruned map is stored but the count is left as it was
CleanTransactionsKeepCount(record, cutoff_date) ==
    LET transactions_dict == record.transactionDetails[1]
        new_transactions_dict ==
            SelectSeq(transactions_dict, LAMBDA it : CleanerKeeps(it, cutoff_date))
        changed == Len(new_transactions_dict) /= Len(transactions_dict)
    IN [has_changes |-> changed,
        new_transaction_count |-> record.toplamIslemSayisi,
        new_transaction_json |->
            IF changed THEN Some(new_transactions_dict) ELSE record.transactionDetails,
        removed_count |-> Len(transactions_dict) - Len(new_transactions_dict),
        latest_transaction_date |-> Nothing,
        latest_doctor |-> Nothing]

CleanTransactionsForRecord(record, cutoff_date) ==
    LET transactions_dict == record.transactionDetails[1]
        new_transactions_dict ==
            SelectSeq(transactions_dict, LAMBDA it : CleanerKeeps(it, cutoff_date))
        latest == LatestKept(new_transactions_dict, 1, Nothing)
        changed == Len(new_transactions_dict) /= Len(transactions_dict)
    IN [has_changes |-> changed,
        new_transaction_count |->
            IF changed THEN Len(new_transactions_dict) ELSE record.toplamIslemSayisi,
        new_transaction_json |->
            IF changed THEN Some(new_transactions_dict) ELSE record.transactionDetails,
        removed_count |-> Len(transactions_dict) - Len(new_transactions_dict),
        latest_transaction_date |->
            IF changed /\ latest /= Nothing THEN Some(latest[1].date) ELSE Nothing,
        latest_doctor |->
            IF changed /\ latest /= Nothing THEN Some(latest[1].item.val.DrName) ELSE Nothing]

\* Phase B (_cleanup_old_transactions_in_records): the rows the SELECT returns
MultiTransactionRows(table) ==
    {r \in table : /\ r.toplamIslemSayisi > 1
                   /\ r.transactionDetails /= Nothing
                   /\ r.transactionDetails /= Some(<<>>)}

\* variant: the UPDATE leaves the latest-visit date as it was
CleanedRowStaleSummary(r, cutoff_date) ==
    LET c == CleanTransactionsForRecord(r, cutoff_date) IN
    IF c.has_changes
    THEN [r EXCEPT !.toplamIslemSayisi = c.new_transaction_count,
                   !.transactionDetails = c.new_transaction_json,
                   !.sonDoktorAdi = c.latest_doctor]
    ELSE r

\* the row after the UPDATE of Phase B
CleanedRow(r, cutoff_date) ==
    LET c == CleanTransactionsForRecord(r, cutoff_date) IN
    IF c.has_changes
    THEN [r EXCEPT !.toplamIslemSayisi = c.new_transaction_count,
                   !.transactionDetails = c.new_transaction_json,
                   !.sonIslemTarihi = c.latest_transaction_date,
                   !.sonDoktorAdi = c.latest_doctor]
    ELSE r

RECURSIVE SumOver(_, _)
SumOver(S, f) ==
    IF S = {} THEN 0
    ELSE LET x == CHOOSE y \in S : TRUE IN f[x] + SumOver(S \ {x}, f)

\* cleanup_old_data on the committed table.  mode: "ok", or where the call
\* raises: "connect", "phaseA", "phaseB", "commit", or "report" (one of the
\* queries that follow the commit); every failure after the connect rolls
\* the transaction back, which after the commit undoes nothing.
CleanupModes == {"ok", "connect", "phaseA", "phaseB", "commit", "report"}

\* variant: Phase A deletes with a cutoff one retention window earlier than
\* the cutoff of Phase B
CleanupOldDataTwoCutoffs(table, cutoff_date, mode) ==
    LET deleted == OldSingleTransactionRows(table, cutoff_date - CLEANUP_DAYS * SecondsPerDay)
        afterA == table \ deleted
        multi == MultiTransactionRows(afterA)
        changedRows == {r \in multi : CleanTransactionsForRecord(r, cutoff_date).has_changes}
        afterB == {IF r \in multi THEN CleanedRow(r, cutoff_date) ELSE r : r \in afterA}
        removed == [r \in changedRows |->
                       CleanTransactionsForRecord(r, cutoff_date).removed_count]
    IN IF mode = "ok"
       THEN [table |-> afterB, raised |-> FALSE,
             stats |-> [deleted_records |-> Cardinality(deleted),
                        cleaned_records |-> Cardinality(changedRows),
                        cleaned_transactions |-> SumOver(changedRows, removed)]]
       ELSE [table |-> IF mode = "report" THEN afterB ELSE table, raised |-> TRUE,
             stats |-> [deleted_records |-> 0, cleaned_records |-> 0,
                        cleaned_transactions |-> 0]]

\* variant: a row whose map ends empty is removed by Phase B
CleanupOldDataDropsEmptied(table, cutoff_date, mode) ==
    LET deleted == OldSingleTransactionRows(table, cutoff_date)
        afterA == table \ deleted
        multi == MultiTransactionRows(afterA)
        changedRows == {r \in multi : CleanTransactionsForRecord(r, cutoff_date).has_changes}
        afterB == {x \in {IF r \in multi THEN CleanedRow(r, cutoff_date) ELSE r : r \in afterA} :
                      x \in afterA \/ x.toplamIslemSayisi > 0}
        removed == [r \in changedRows |->
                       CleanTransactionsForRecord(r, cutoff_date).removed_count]
    IN IF mode = "ok"
       THEN [table |-> afterB, raised |-> FALSE,
             stats |-> [deleted_records |-> Cardinality(deleted),
                        cleaned_records |-> Cardinality(changedRows),
                        cleaned_transactions |-> SumOver(changedRows, removed)]]
       ELSE [table |-> IF mode = "report" THEN afterB ELSE table, raised |-> TRUE,
             stats |-> [deleted_records |-> 0, cleaned_records |-> 0,
                        cleaned_transactions |-> 0]]

\* cleanup_old_data: Phase A, Phase B, commit, the closing report
CleanupOldData(table, cutoff_date, mode) ==
    LET deleted == OldSingleTransactionRows(table, cutoff_date)
        afterA == table \ deleted
        multi == MultiTransactionRows(afterA)
        changedRows == {r \in multi : CleanTransactionsForRecord(r, cutoff_date).has_changes}
        afterB == {IF r \in multi THEN CleanedRow(r, cutoff_date) ELSE r : r \in afterA}
        removed == [r \in changedRows |->
                       CleanTransactionsForRecord(r, cutoff_date).removed_count]
    IN IF mode = "ok"
       THEN [table |-> afterB, raised |-> FALSE,
             stats |-> [deleted_records |-> Cardinality(deleted),
                        cleaned_records |-> Cardinality(changedRows),
                        cleaned_transactions |-> SumOver(changedRows, removed)]]
       ELSE [table |-> IF mode = "report" THEN afterB ELSE table, raised |-> TRUE,
             stats |-> [deleted_records |-> 0, cleaned_records |-> 0,
                        cleaned_transactions |-> 0]]

\* HOSPITAL_CONFIGS as the repository ships it: one tenant (the credentials
\* of the entry are left out)
HospitalConfigs == <<[appId |-> "14", dbName |-> "sanapratikcrm_db"]>>

\* The registry the runs are made with: the shipped tenant and a second
\* one, so that what one tenant does to the next can be seen.
Registry == HospitalConfigs \o <<[appId |-> "15", dbName |-> "db15"]>>

\* _get_hospitals_from_config: the dbName of every configuration, or the
\* default store when there is none
GetHospitalsFromConfig(hospitals) ==
    IF hospitals = <<>> THEN <<"vatanpratikcrm_db">>
    ELSE [i \in 1..Len(hospitals) |-> hospitals[i].dbName]

DbNames == GetHospitalsFromConfig(Registry)
DbNameSet == {DbNames[i] : i \in 1..Len(DbNames)}

TotalStats0 ==
    [deleted_records |-> 0, cleaned_records |-> 0, cleaned_transactions |-> 0,
     processed_databases |-> 0, failed_databases |-> 0]

\* variant: the loop ends at the first tenant whose cleanup raises
RECURSIVE CleanupAllLoopStopAtFailure(_, _, _, _, _)
CleanupAllLoopStopAtFailure(acc, db_names, i, cutoff_date, modes) ==
    IF i > Len(db_names) THEN acc
    ELSE
    LET db_name == db_names[i]
        r == CleanupOldData(acc.tables[db_name], cutoff_date, modes[db_name])
    IN IF r.raised
       THEN [acc EXCEPT
               !.tables[db_name] = r.table,
               !.total_stats.failed_databases = @ + 1,
               !.db_results = (db_name :> [status |-> "failed", result |-> Nothing]) @@ @]
       ELSE CleanupAllLoopStopAtFailure(
               [acc EXCEPT
                  !.tables[db_name] = r.table,
                  !.total_stats.deleted_records = @ + r.stats.deleted_records,
                  !.total_stats.cleaned_records = @ + r.stats.cleaned_records,
                  !.total_stats.cleaned_transactions = @ + r.stats.cleaned_transactions,
                  !.total_stats.processed_databases = @ + 1,
                  !.db_results = (db_name :> [status |-> "success",
                                              result |-> Some(r.stats)]) @@ @],
               db_names, i + 1, cutoff_date, modes)

\* variant: each total is set to the tenant's figure instead of being
\* increased by it
RECURSIVE CleanupAllLoopLastFigures(_, _, _, _, _)
CleanupAllLoopLastFigures(acc, db_names, i, cutoff_date, modes) ==
    IF i > Len(db_names) THEN acc
    ELSE
    LET db_name == db_names[i]
        r == CleanupOldData(acc.tables[db_name], cutoff_date, modes[db_name])
    IN CleanupAllLoopLastFigures(
          IF r.raised
          THEN [acc EXCEPT
                  !.tables[db_name] = r.table,
                  !.total_stats.failed_databases = @ + 1,
                  !.db_results = (db_name :> [status |-> "failed", result |-> Nothing]) @@ @]
          ELSE [acc EXCEPT
                  !.tables[db_name] = r.table,
                  !.total_stats.deleted_records = r.stats.deleted_records,
                  !.total_stats.cleaned_records = r.stats.cleaned_records,
                  !.total_stats.cleaned_transactions = r.stats.cleaned_transactions,
                  !.total_stats.processed_databases = @ + 1,
                  !.db_results = (db_name :> [status |-> "success",
                                              result |-> Some(r.stats)]) @@ @],
          db_names, i + 1, cutoff_date, modes)

\* the `for db_name in db_names` loop of cleanup_all_databases, from
\* position i on; db_results is the dict built so far, in which the entry
\* of a store named again replaces the one already there
RECURSIVE CleanupAllLoop(_, _, _, _, _)
CleanupAllLoop(acc, db_names, i, cutoff_date, modes) ==
    IF i > Len(db_names) THEN acc
    ELSE
    LET db_name == db_names[i]
        r == CleanupOldData(acc.tables[db_name], cutoff_date, modes[db_name])
    IN CleanupAllLoop(
          IF r.raised
          THEN [acc EXCEPT
                  !.tables[db_name] = r.table,
                  !.total_stats.failed_databases = @ + 1,
                  !.db_results = (db_name :> [status |-> "failed", result |-> Nothing]) @@ @]
          ELSE [acc EXCEPT
                  !.tables[db_name] = r.table,
                  !.total_stats.deleted_records = @ + r.stats.deleted_records,
                  !.total_stats.cleaned_records = @ + r.stats.cleaned_records,
                  !.total_stats.cleaned_transactions = @ + r.stats.cleaned_transactions,
                  !.total_stats.processed_databases = @ + 1,
                  !.db_results = (db_name :> [status |-> "success",
                                              result |-> Some(r.stats)]) @@ @],
          db_names, i + 1, cutoff_date, modes)

\* cleanup_all_databases over the stores db_names names
CleanupAllDatabases(db_names, tables, cutoff_date, modes) ==
    CleanupAllLoop([tables |-> tables, total_stats |-> TotalStats0, db_results |-> <<>>],
                   db_names, 1, cutoff_date, modes)

\* run_data_cleanup: what the coordinator makes of the cleaner's result
RunDataCleanup(r) ==
    [success |-> r.total_stats.failed_databases = 0,
     stats |-> [deleted_records |-> r.total_stats.deleted_records,
                cleaned_records |-> r.total_stats.cleaned_records,
                cleaned_transactions |-> r.total_stats.cleaned_transactions,
                processed_databases |-> r.total_stats.processed_databases]]

(***************************************************************************)
(* One cleaner run over the tenant stores.  The stores hold rows stored    *)
(* at earlier times: their visits are dated around the cutoff of this run, *)
(* and a map may hold entries with no date or with a date that does not    *)
(* parse, which the cleaner is written to keep and the writer never stores.*)
(***************************************************************************)
MaxEntries == 3

CleanNow == Now0
CleanCutoff == CutoffDate(CleanNow)

\* stored visits: one day before the cutoff, two days before (date only),
\* at the cutoff, one day after, without a date, with an unparsable date
EntryOld == Tx(DateStr("T", CleanCutoff - SecondsPerDay), "DrA")
EntryOlder == Tx(DateStr("date", CleanCutoff - 2 * SecondsPerDay), "DrD")
EntryAt == Tx(DateStr("sp", CleanCutoff), "DrB")
EntryNew == Tx(DateStr("T", CleanCutoff + SecondsPerDay), "DrC")
EntryUndated == Tx(EmptyDate, "DrE")
EntryJunk == Tx(JunkDate, "DrF")
StoredEntries == {EntryOld, EntryOlder, EntryAt, EntryNew, EntryUndated, EntryJunk}

\* a row of the contact table holding the map of the entries txs: the
\* count is the size of the map, the summary is the latest dated entry.
\* The cleaner reads the map of a row whoever stored it, and is written to
\* keep an entry without a date or with a date that does not parse.
TableRow(id, app_id, userPatientId, txs) ==
    LET dated == SelectSeq(txs, LAMBDA tx : ParseIsoDate(tx.TransactionDate) /= Nothing)
    IN [id |-> id,
        appId |-> app_id,
        userPatientId |-> userPatientId,
        processTimestamp |-> CleanNow - 100 * SecondsPerDay,
        chatType |-> "whatsapp",
        language |-> "TR",
        phoneNumber |-> "555",
        hiysUpn |-> "1001",
        hiysHastaBulundu |-> TRUE,
        hiysIslemBulundu |-> TRUE,
        toplamIslemSayisi |-> Len(txs),
        sonIslemTarihi |-> IF dated = <<>> THEN Nothing
                           ELSE ParseIsoDate(LatestTransaction(dated).TransactionDate),
        sonDoktorAdi |-> IF dated = <<>> THEN Nothing
                         ELSE Some(LatestTransaction(dated).DrName),
        ilkMesajTarihi |-> Nothing,
        transactionDetails |-> Some(TransactionsDict(txs, 1))]

\* the row the writer's INSERT leaves for a contact with the visits txs:
\* its filter stores a visit only when the date parses, so a row of the
\* writer holds dated entries only
StoredRow(id, app_id, userPatientId, txs) ==
    TableRow(id, app_id, userPatientId,
             SelectSeq(txs, LAMBDA tx : ParseIsoDate(tx.TransactionDate) /= Nothing))

\* the first tenant's table: one row with a map of any entries, and
\* possibly a second row; the second tenant's table: empty or one row
CleanerTables ==
    {[d \in DbNameSet |-> IF d = "sanapratikcrm_db" THEN {TableRow(1, "14", 1, txs)} \cup second
                          ELSE other] :
        txs \in SeqsUpTo(StoredEntries, MaxEntries),
        second \in {{}, {StoredRow(2, "14", 2, <<EntryOld>>)},
                    {StoredRow(2, "14", 2, <<EntryOlder, EntryNew, EntryOld>>)}},
        other \in {{}, {StoredRow(1, "15", 1, <<EntryAt>>)},
                   {StoredRow(1, "15", 1, <<EntryOld, EntryOlder>>)}}}

CleanerInit ==
    /\ \E t \in CleanerTables :
          cl = [pc |-> "ready", before |-> t, tables |-> t, modes |-> <<>>,
                total_stats |-> TotalStats0, db_results |-> <<>>, result |-> Nothing,
                again |-> Nothing]
    /\ rq = Parked /\ fl = Parked /\ en = Parked /\ st = Parked
    /\ pl = Parked /\ tk = Parked /\ vi = Parked
    /\ wb = Parked /\ rn = Parked /\ ch = Parked /\ hw = Parked

\* run_data_cleanup: DataCleanupService() fixes the cutoff, then
\* cleanup_all_databases visits every tenant store
CleanerRun(modes) ==
    /\ cl.pc = "ready"
    /\ LET r == CleanupAllDatabases(DbNames, cl.tables, CutoffDate(CleanNow), modes)
       IN cl' = [cl EXCEPT !.pc = "done",
                           !.tables = r.tables,
                           !.modes = modes,
                           !.total_stats = r.total_stats,
                           !.db_results = r.db_results,
                           !.result = Some(RunDataCleanup(r))]
    /\ UNCHANGED <<rq, fl, en, st, pl, tk, vi, wb, rn, ch, hw>>

\* what a store does during a second cleanup
RerunModes == {"ok", "commit"}

\* a second run_data_cleanup with the cutoff of the first and no write in
\* between
CleanerRunAgain(modes) ==
    /\ cl.pc = "done"
    /\ LET again(r) ==
               cl' = [cl EXCEPT !.pc = "again",
                                !.again = Some([tables |-> r.tables, modes |-> modes,
                                                total_stats |-> r.total_stats,
                                                db_results |-> r.db_results])]
       IN again(CleanupAllDatabases(DbNames, cl.tables, CutoffDate(CleanNow), modes))
    /\ UNCHANGED <<rq, fl, en, st, pl, tk, vi, wb, rn, ch, hw>>

CleanerNext ==
    \/ \E modes \in [DbNameSet -> CleanupModes] : CleanerRun(modes)
    \/ \E modes \in [DbNameSet -> RerunModes] : CleanerRunAgain(modes)

SpecCleaner == CleanerInit /\ [][CleanerNext]_vars

\* the tenants whose cleanup was committed in the finished run
Committed(db) == cl.modes[db] \in {"ok", "report"}
\* the row a row of the earlier table has become, by its id
RowAfter(db, r) == CHOOSE x \in cl.tables[db] : x.id = r.id
Survives(db, r) == \E x \in cl.tables[db] : x.id = r.id
\* the entries of a map, and those with a parsable timestamp before the cutoff
EntriesOf(r) == r.transactionDetails[1]
Dated(item) == ParseIsoDate(item.val.TransactionDate) /= Nothing
Prunable(item) ==
    Dated(item) /\ ParseIsoDate(item.val.TransactionDate)[1] < CleanCutoff
Remaining(r) == SelectSeq(EntriesOf(r), LAMBDA it : ~Prunable(it))
\* the rows Phase B looks at
MultiVisit(r) == r.toplamIslemSayisi > 1 /\ EntriesOf(r) /= <<>>
\* the rows of a tenant that Phase B pruned
PrunedRows(db) ==
    {r \in cl.before[db] : MultiVisit(r) /\ Remaining(r) /= EntriesOf(r)}

\* C15: where the cleanup is committed, the rows gone from the table are
\* exactly those with visit count 1 and a recorded visit timestamp strictly
\* before the cutoff, and their number is reported as deleted_records: a
\* count-1 row dated one day before the cutoff is gone, one dated at the
\* cutoff or a day after it is still there, and so is every row with
\* another visit count.
C15_PhaseADeletesOldSingles ==
    cl.pc = "done" =>
        \A db \in DbNameSet :
            Committed(db) =>
                /\ \A r \in cl.before[db] :
                      ~Survives(db, r) <=>
                          /\ r.toplamIslemSayisi = 1
                          /\ r.sonIslemTarihi /= Nothing
                          /\ r.sonIslemTarihi[1] < CleanCutoff
                /\ \A r \in cl.before[db] :
                      /\ (r.toplamIslemSayisi = 1
                          /\ r.sonIslemTarihi = Some(CleanCutoff - SecondsPerDay))
                            => ~Survives(db, r)
                      /\ (r.toplamIslemSayisi = 1
                          /\ r.sonIslemTarihi \in {Some(CleanCutoff),
                                                   Some(CleanCutoff + SecondsPerDay)})
                            => r \in cl.tables[db]
                      /\ r.toplamIslemSayisi /= 1 => Survives(db, r)
                /\ cl.modes[db] = "ok" =>
                      cl.db_results[db].result[1].deleted_records =
                          Cardinality({r \in cl.before[db] : ~Survives(db, r)})

\* a count-1 row dated a day before the cutoff is deleted next to a count-1
\* row dated at the cutoff, which stays
C15_Witness ==
    /\ cl.pc = "done"
    /\ cl.modes["sanapratikcrm_db"] = "ok"
    /\ \E r \in cl.before["sanapratikcrm_db"] :
          /\ r.toplamIslemSayisi = 1
          /\ r.sonIslemTarihi = Some(CleanCutoff - SecondsPerDay)
          /\ ~Survives("sanapratikcrm_db", r)
    /\ \E r \in cl.before["sanapratikcrm_db"] :
          /\ r.toplamIslemSayisi = 1
          /\ r.sonIslemTarihi = Some(CleanCutoff)
          /\ r \in cl.tables["sanapratikcrm_db"]
    /\ cl.db_results["sanapratikcrm_db"].result[1].deleted_records = 1

\* C16: where the cleanup is committed, every row with visit count > 1 and
\* a non-empty map loses exactly its entries with a parsable timestamp
\* before the cutoff and keeps those with no or an unparsable timestamp;
\* a row that lost an entry holds the remaining entries in their order and
\* their number as its count, a row with nothing to remove is unchanged;
\* cleaned_records counts the rows that lost an entry and
\* cleaned_transactions the entries removed.
C16_PhaseBPrunesOldEntries ==
    cl.pc = "done" =>
        \A db \in DbNameSet :
            Committed(db) =>
                /\ \A r \in cl.before[db] :
                      MultiVisit(r) =>
                          /\ Survives(db, r)
                          /\ IF r \in PrunedRows(db)
                             THEN /\ RowAfter(db, r).transactionDetails = Some(Remaining(r))
                                  /\ RowAfter(db, r).toplamIslemSayisi = Len(Remaining(r))
                             ELSE RowAfter(db, r) = r
                          /\ \A k \in 1..Len(EntriesOf(r)) :
                                ~Dated(EntriesOf(r)[k]) =>
                                    InSeq(EntriesOf(r)[k],
                                          RowAfter(db, r).transactionDetails[1])
                /\ cl.modes[db] = "ok" =>
                      /\ cl.db_results[db].result[1].cleaned_records =
                            Cardinality(PrunedRows(db))
                      /\ cl.db_results[db].result[1].cleaned_transactions =
                            SumOver(PrunedRows(db),
                                    [r \in PrunedRows(db) |->
                                        Len(EntriesOf(r)) - Len(Remaining(r))])

\* a row of three visits, two of them before the cutoff, ends with count 1
\* and two pruned visits, next to a row of undated and unparsable entries
\* that is left as it was
C16_Witness ==
    /\ cl.pc = "done"
    /\ cl.modes["sanapratikcrm_db"] = "ok"
    /\ \E r \in cl.before["sanapratikcrm_db"] :
          /\ r.toplamIslemSayisi = 3
          /\ Len(Remaining(r)) = 1
          /\ RowAfter("sanapratikcrm_db", r).toplamIslemSayisi = 1
    /\ \E r \in cl.before["sanapratikcrm_db"] :
          /\ r.toplamIslemSayisi = 2
          /\ \A k \in 1..2 : ~Dated(EntriesOf(r)[k])
          /\ r \in cl.tables["sanapratikcrm_db"]
    /\ cl.db_results["sanapratikcrm_db"].result[1].cleaned_records = 1
    /\ cl.db_results["sanapratikcrm_db"].result[1].cleaned_transactions = 2

\* the remaining entries of a row that have a parsable timestamp
DatedRemaining(r) == SelectSeq(Remaining(r), Dated)
\* the first of the entries with the greatest timestamp
GreatestDated(r) ==
    LET d == DatedRemaining(r)
        t(k) == ParseIsoDate(d[k].val.TransactionDate)[1]
        k0 == CHOOSE k \in 1..Len(d) :
                  /\ \A j \in 1..Len(d) : t(j) <= t(k)
                  /\ \A j \in 1..(k - 1) : t(j) < t(k)
    IN [date |-> t(k0), doctor |-> d[k0].val.DrName]

\* C17: when Phase B prunes a row, its latest-visit summary (date and
\* doctor, with which department and branch go) is that of the remaining
\* entry with the greatest timestamp, and it is cleared only if no entries
\* remain in the map.  Stated of the stores the writer filled.
C17_SummaryClearedOnlyWhenEmpty ==
    cl.pc = "done" =>
        \A db \in DbNameSet :
            Committed(db) =>
                \A r \in PrunedRows(db) :
                    IF Remaining(r) = <<>>
                    THEN /\ RowAfter(db, r).sonIslemTarihi = Nothing
                         /\ RowAfter(db, r).sonDoktorAdi = Nothing
                    ELSE /\ RowAfter(db, r).sonIslemTarihi /= Nothing
                         /\ RowAfter(db, r).sonDoktorAdi /= Nothing
                         /\ DatedRemaining(r) /= <<>> =>
                               /\ RowAfter(db, r).sonIslemTarihi =
                                     Some(GreatestDated(r).date)
                               /\ RowAfter(db, r).sonDoktorAdi =
                                     Some(GreatestDated(r).doctor)

\* of a map with any entries: the summary is that of the remaining entry
\* with the greatest timestamp, the first of them in map order, and it is
\* cleared exactly when no remaining entry has a parsable timestamp
SummaryFromLatestDated ==
    cl.pc = "done" =>
        \A db \in DbNameSet :
            Committed(db) =>
                \A r \in PrunedRows(db) :
                    IF DatedRemaining(r) = <<>>
                    THEN /\ RowAfter(db, r).sonIslemTarihi = Nothing
                         /\ RowAfter(db, r).sonDoktorAdi = Nothing
                    ELSE /\ RowAfter(db, r).sonIslemTarihi = Some(GreatestDated(r).date)
                         /\ RowAfter(db, r).sonDoktorAdi = Some(GreatestDated(r).doctor)

\* a pruned row of the writer keeps two entries, the later of them first,
\* and its summary is that one; the other tenant's pruned row keeps nothing
\* and its summary is cleared
C17_Witness ==
    /\ cl.pc = "done"
    /\ cl.modes["sanapratikcrm_db"] = "ok"
    /\ cl.modes["db15"] = "ok"
    /\ \E r \in PrunedRows("sanapratikcrm_db") :
          /\ Len(Remaining(r)) = 2
          /\ Remaining(r)[1].val = EntryNew
          /\ Remaining(r)[2].val = EntryAt
          /\ RowAfter("sanapratikcrm_db", r).sonIslemTarihi = Some(CleanCutoff + SecondsPerDay)
          /\ RowAfter("sanapratikcrm_db", r).sonDoktorAdi = Some("DrC")
    /\ \E r \in PrunedRows("db15") :
          /\ Remaining(r) = <<>>
          /\ RowAfter("db15", r).toplamIslemSayisi = 0
          /\ RowAfter("db15", r).sonIslemTarihi = Nothing
          /\ RowAfter("db15", r).sonDoktorAdi = Nothing

\* C18: Phase B deletes no row: where the cleanup is committed every row
\* with a visit count other than 1 is still in the table, and a row whose
\* every entry was pruned is there with count 0 and an empty map; the rows
\* gone are count-1 rows.
C18_PhaseBKeepsRows ==
    cl.pc = "done" =>
        \A db \in DbNameSet :
            Committed(db) =>
                \A r \in cl.before[db] :
                    /\ r.toplamIslemSayisi /= 1 => Survives(db, r)
                    /\ (r \in PrunedRows(db) /\ Remaining(r) = <<>>) =>
                          /\ Survives(db, r)
                          /\ RowAfter(db, r).toplamIslemSayisi = 0
                          /\ RowAfter(db, r).transactionDetails = Some(<<>>)
                    /\ ~Survives(db, r) => r.toplamIslemSayisi = 1

\* a row of two visits, both before the cutoff, stays with count 0
C18_Witness ==
    /\ cl.pc = "done"
    /\ cl.modes["db15"] = "ok"
    /\ \E r \in cl.before["db15"] :
          /\ r.toplamIslemSayisi = 2
          /\ Remaining(r) = <<>>
          /\ Survives("db15", r)
          /\ RowAfter("db15", r).toplamIslemSayisi = 0
          /\ RowAfter("db15", r).transactionDetails = Some(<<>>)

\* the tenants whose cleanup raised in the finished run
FailedTenants == {db \in DbNameSet : cl.modes[db] /= "ok"}

\* C19: a tenant whose cleanup raises (at the connect, in Phase A, in
\* Phase B, at the commit or after it) stops no other tenant: every tenant
\* has a detail record, 'failed' for the tenants that raised and 'success'
\* with its statistics for the others, whose tables are cleaned; the
\* failed counter is the number of tenants that raised and the processed
\* counter the number of the others; the run is a success only if none
\* raised.
C19_FailedTenantStopsNoOther ==
    cl.pc = "done" =>
        /\ DOMAIN cl.db_results = DbNameSet
        /\ \A db \in DbNameSet :
              IF db \in FailedTenants
              THEN cl.db_results[db].status = "failed"
              ELSE /\ cl.db_results[db].status = "success"
                   /\ cl.db_results[db].result /= Nothing
                   /\ cl.tables[db] = CleanupOldData(cl.before[db], CleanCutoff, "ok").table
        /\ cl.total_stats.failed_databases = Cardinality(FailedTenants)
        /\ cl.total_stats.processed_databases = Cardinality(DbNameSet \ FailedTenants)
        /\ cl.result[1].success = (FailedTenants = {})

\* the first tenant fails in Phase A, the second is cleaned after it
C19_Witness ==
    /\ cl.pc = "done"
    /\ cl.modes["sanapratikcrm_db"] = "phaseA"
    /\ cl.modes["db15"] = "ok"
    /\ cl.db_results["sanapratikcrm_db"].status = "failed"
    /\ cl.tables["sanapratikcrm_db"] = cl.before["sanapratikcrm_db"]
    /\ cl.db_results["db15"].status = "success"
    /\ cl.tables["db15"] /= cl.before["db15"]
    /\ cl.total_stats.failed_databases = 1
    /\ cl.total_stats.processed_databases = 1
    /\ ~cl.result[1].success

(***************************************************************************)
(* The visit maps two runs of the writer build for two kept visit lists.   *)
(* Each run is a process with its own hash salt; two runs in one process   *)
(* share it.                                                               *)
(***************************************************************************)
MaxVisits == 2
Seeds == {1, 2}

VisitP == Tx(DateStr("T", Now0 - 3 * SecondsPerDay), "DrA")
VisitQ == Tx(DateStr("T", Now0 - 2 * SecondsPerDay), "DrA")
VisitR == Tx(DateStr("T", Now0 - 3 * SecondsPerDay), "DrB")
KeptVisitLists == SeqsUpTo({VisitP, VisitQ, VisitR}, MaxVisits) \ {<<>>}

VisitIdInit ==
    /\ vi \in [pc : {"input"},
               first : KeptVisitLists, second : KeptVisitLists,
               seed1 : Seeds, seed2 : Seeds,
               map1 : {<<>>}, map2 : {<<>>}]
    /\ rq = Parked /\ fl = Parked /\ en = Parked /\ st = Parked
    /\ pl = Parked /\ tk = Parked /\ cl = Parked
    /\ wb = Parked /\ rn = Parked /\ ch = Parked /\ hw = Parked

\* lines 827-850 in each of the two runs
VisitIdSynthesize ==
    /\ vi.pc = "input"
    /\ vi' = [vi EXCEPT !.pc = "built",
                        !.map1 = TransactionsDict(vi.first, vi.seed1),
                        !.map2 = TransactionsDict(vi.second, vi.seed2)]
    /\ UNCHANGED <<rq, fl, en, st, pl, tk, cl, wb, rn, ch, hw>>

VisitIdNext == VisitIdSynthesize

SpecVisitId == VisitIdInit /\ [][VisitIdNext]_vars

\* the ids under which a map holds a visit
IdsOf(map, tx) ==
    {map[k].key : k \in {j \in 1..Len(map) :
                            /\ map[j].val.TransactionDate = tx.TransactionDate
                            /\ map[j].val.DrName = tx.DrName}}

\* C20: a visit (timestamp, doctor) that two runs both keep gets the same
\* id in both maps, whatever the process of each run and whatever the
\* visit's position in each kept list.
C20_VisitIdDeterministic ==
    vi.pc = "built" =>
        \A i \in 1..Len(vi.first), j \in 1..Len(vi.second) :
            vi.first[i] = vi.second[j] =>
                IdsOf(vi.map1, vi.first[i]) = IdsOf(vi.map2, vi.second[j])

\* what the code gives: the same id for the same visit at the same
\* position when both runs have the same hash salt
C20_SameSaltSamePosition ==
    vi.pc = "built" =>
        \A i \in 1..Len(vi.first) :
            (vi.seed1 = vi.seed2 /\ i <= Len(vi.second) /\ vi.first[i] = vi.second[i]) =>
                vi.map1[i].key = vi.map2[i].key

(***************************************************************************)
(* The contact table of one store under any sequence of                    *)
(* save_batch_to_db_optimized and cleanup_old_data calls, with the clock   *)
(* advancing between calls.  The table starts empty.                       *)
(***************************************************************************)
MaxOps == 3
MaxTicks == 1
MaxBatch == 2
TickDays == 85

\* the tenants of the registry
AppIds == {Registry[i].appId : i \in 1..Len(Registry)}

\* visits the external service reports, dated relative to the first clock
VisitA == Tx(DateStr("T", Now0 - 80 * SecondsPerDay), "DrA")
VisitB == Tx(DateStr("sp", Now0 - 1 * SecondsPerDay), "DrB")
VisitC == Tx(DateStr("T", Now0 - 70 * SecondsPerDay), "DrC")

EnrichedPatient(id, txs, first) ==
    [userPatientId |-> id, chatType |-> "whatsapp", language |-> NONE,
     phoneNumber |-> "90555000",
     patientDetails |-> Some(PatientDetail("1001")),
     transactions |-> txs,
     transactionCount |-> Len(txs),
     patientFound |-> TRUE,
     transactionsFound |-> TRUE,
     ilkMesajTarihi |-> first]

StorePatients ==
    {EnrichedPatient(1, <<VisitA>>, Nothing),
     EnrichedPatient(1, <<VisitA, VisitB>>, Some(Now0 - 100 * SecondsPerDay)),
     EnrichedPatient(2, <<VisitC, VisitA>>, Nothing)}

\* batches come from a SELECT DISTINCT on the contact id
StoreBatches ==
    {b \in SeqsUpTo(StorePatients, MaxBatch) :
        \A i, j \in 1..Len(b) : i /= j => b[i].userPatientId /= b[j].userPatientId}

\* a contact as save_processed_data_to_db hands it to the non-enriched
\* save: both lookup flags false, no details, no visits
BasicPatient(id) ==
    [userPatientId |-> id, chatType |-> "whatsapp", language |-> NONE,
     phoneNumber |-> "90555000",
     patientDetails |-> Nothing,
     transactions |-> <<>>,
     transactionCount |-> 0,
     patientFound |-> FALSE,
     transactionsFound |-> FALSE,
     ilkMesajTarihi |-> Nothing]

\* the for loops of save_final_data_to_db over one hospital's patients;
\* `result is True` is false of the (result, action) pair, so every
\* contact is counted in total_failed.  A statement on a lost connection
\* or on a connection with an unread result raises and writes nothing.
RECURSIVE SaveFinalLoop(_, _, _, _, _, _, _, _)
SaveFinalLoop(acc, patients, i, dt, app_id, now, seed, mode) ==
    IF i > Len(patients) THEN acc
    ELSE
    LET rejected == \/ i \in mode.rejects
                    \/ (mode.conn = "lost" /\ i > mode.at)
                    \/ acc.unread
        r == SavePatientDataToDb(acc.table, acc.nextId, dt, app_id, patients[i],
                                 now, seed, rejected)
    IN SaveFinalLoop([table |-> r.table, nextId |-> r.nextId,
                      total_failed |-> acc.total_failed + 1,
                      unread |-> acc.unread \/ r.unread],
                     patients, i + 1, dt, app_id, now, seed, mode)

\* variant: the non-enriched save counts its contacts in the tracker
SaveFinalDataToDbTracked(table, nextId, stats, dt, app_id, patients, now, seed, mode) ==
    IF mode.conn = "refused"
    THEN [table |-> table, nextId |-> nextId, stats |-> stats, ret |-> Some(FALSE)]
    ELSE
    LET acc == SaveFinalLoop([table |-> table, nextId |-> nextId, total_failed |-> 0,
                              unread |-> FALSE],
                             patients, 1, dt, app_id, now, seed, mode)
        commits == mode.conn = "ok" /\ mode.commit = "ok" /\ ~acc.unread
    IN [table |-> IF commits THEN acc.table ELSE table,
        nextId |-> acc.nextId,
        stats |-> AddSkipped(stats, Len(patients)),
        ret |-> IF mode.conn = "lost" THEN Nothing ELSE Some(commits)]

\* save_final_data_to_db on the committed table: the loop, the commit, the
\* rollback in the except block.  The tracker is passed through: the method
\* holds no call of run_stats.  ret is Some(True or False), or Nothing when
\* the rollback itself raises.
SaveFinalDataToDb(table, nextId, stats, dt, app_id, patients, now, seed, mode) ==
    IF mode.conn = "refused"
    THEN [table |-> table, nextId |-> nextId, stats |-> stats, ret |-> Some(FALSE)]
    ELSE
    LET acc == SaveFinalLoop([table |-> table, nextId |-> nextId, total_failed |-> 0,
                              unread |-> FALSE],
                             patients, 1, dt, app_id, now, seed, mode)
        commits == mode.conn = "ok" /\ mode.commit = "ok" /\ ~acc.unread
    IN [table |-> IF commits THEN acc.table ELSE table,
        nextId |-> acc.nextId,
        stats |-> stats,
        ret |-> IF mode.conn = "lost" THEN Nothing ELSE Some(commits)]

\* the candidates handed to the non-enriched save
BasicBatches == {<<BasicPatient(1)>>, <<BasicPatient(2), BasicPatient(1)>>}
\* what the store does during the non-enriched save
FinalModes == {m \in BatchModes(0) : m.rejects = {}}

NoOp == [op |-> "none"]

StoreInit ==
    /\ st = [now |-> Now0, seed |-> 1, table |-> {}, nextId |-> 1, run_stats |-> StatsReset,
             ops |-> 0, ticks |-> 0, written |-> FALSE, last |-> NoOp]
    /\ rq = Parked /\ fl = Parked /\ en = Parked /\ pl = Parked
    /\ tk = Parked /\ cl = Parked /\ vi = Parked
    /\ wb = Parked /\ rn = Parked /\ ch = Parked /\ hw = Parked

\* a failure of the call as a whole, not of one contact: the except block
\* of save_batch_to_db_optimized runs, for a connection refused or lost, a
\* commit that fails, or a commit that raises on a result left unread
Systemic(mode, unread) == mode.conn /= "ok" \/ mode.commit /= "ok" \/ unread

StoreWriteBatch(batch, app_id, mode) ==
    /\ st.ops < MaxOps
    /\ LET wrote(r) ==
               st' = [st EXCEPT
                        !.table = r.table,
                        !.nextId = r.nextId,
                        !.run_stats = r.stats,
                        !.ops = @ + 1,
                        !.written = TRUE,
                        !.last = [op |-> "write", systemic |-> Systemic(mode, r.unread),
                                  ret |-> r.ret, outcomes |-> r.outcomes,
                                  table_kept |-> r.table = st.table,
                                  reported_new |->
                                      r.stats.new_records - st.run_stats.new_records,
                                  reported_updated |->
                                      r.stats.updated_records - st.run_stats.updated_records,
                                  reported_skipped |->
                                      r.stats.skipped_records - st.run_stats.skipped_records,
                                  reported_failed |->
                                      r.stats.failed_records - st.run_stats.failed_records]]
       IN wrote(SaveBatchToDbOptimized(st.table, st.nextId, st.run_stats, st.now,
                                       app_id, batch, st.now, st.seed, mode))
    /\ UNCHANGED <<rq, fl, en, pl, tk, cl, vi, wb, rn, ch, hw>>

StoreCleanup(mode) ==
    /\ st.ops < MaxOps
    /\ LET r == CleanupOldData(st.table, CutoffDate(st.now), mode)
       IN st' = [st EXCEPT
                   !.table = r.table,
                   !.ops = @ + 1,
                   !.last = [op |-> "cleanup", raised |-> r.raised, stats |-> r.stats]]
    /\ UNCHANGED <<rq, fl, en, pl, tk, cl, vi, wb, rn, ch, hw>>

\* the non-enriched save path: save_processed_data_to_db hands the
\* candidates, with both lookup flags false, to save_final_data_to_db
StoreSaveFinal(batch, app_id, mode) ==
    /\ st.ops < MaxOps
    /\ LET saved(r) ==
               st' = [st EXCEPT
                        !.table = r.table,
                        !.nextId = r.nextId,
                        !.run_stats = r.stats,
                        !.ops = @ + 1,
                        !.last = [op |-> "final", ret |-> r.ret]]
       IN saved(SaveFinalDataToDb(st.table, st.nextId, st.run_stats, st.now,
                                  app_id, batch, st.now, st.seed, mode))
    /\ UNCHANGED <<rq, fl, en, pl, tk, cl, vi, wb, rn, ch, hw>>

StoreResetStats ==
    /\ st.ops < MaxOps
    /\ st.run_stats /= StatsReset
    /\ st' = [st EXCEPT !.run_stats = StatsReset, !.written = FALSE, !.last = NoOp]
    /\ UNCHANGED <<rq, fl, en, pl, tk, cl, vi, wb, rn, ch, hw>>

StoreTick ==
    /\ st.ticks < MaxTicks
    /\ st' = [st EXCEPT !.now = @ + TickDays * SecondsPerDay,
                        !.ticks = @ + 1, !.last = NoOp]
    /\ UNCHANGED <<rq, fl, en, pl, tk, cl, vi, wb, rn, ch, hw>>

StoreNext ==
    \/ \E batch \in StoreBatches, app_id \in AppIds :
          \E mode \in BatchModes(Len(batch)) : StoreWriteBatch(batch, app_id, mode)
    \/ \E mode \in CleanupModes : StoreCleanup(mode)
    \/ \E batch \in BasicBatches, app_id \in AppIds, mode \in FinalModes :
          StoreSaveFinal(batch, app_id, mode)
    \/ StoreResetStats
    \/ StoreTick

SpecStore == StoreInit /\ [][StoreNext]_vars

(***************************************************************************)
(* The cleaner over stores the batch writer filled: every row is the one   *)
(* save_batch_to_db_optimized left, TickDays before the cleaner runs, for  *)
(* a contact whose visits are dated around the cleaner's cutoff.           *)
(***************************************************************************)
\* the clock of the writes
WriteNow == CleanNow - TickDays * SecondsPerDay

\* the visits the external service reported then
WrittenVisits == {EntryOld, EntryOlder, EntryAt, EntryNew}

\* a call the store serves without a fault
NoFault(n) == [conn |-> "ok", at |-> n, rejects |-> {}, commit |-> "ok"]

\* the table save_batch_to_db_optimized leaves in an empty store
WrittenTable(app_id, patients) ==
    SaveBatchToDbOptimized({}, 1, StatsReset, WriteNow, app_id, patients,
                           WriteNow, 1, NoFault(Len(patients))).table

\* the first tenant's store: contact 1 with any visits and possibly
\* contact 2; the second tenant's store: empty or one contact
WrittenTables ==
    {[d \in DbNameSet |->
         IF d = "sanapratikcrm_db"
         THEN WrittenTable("14", <<EnrichedPatient(1, txs, Nothing)>> \o second)
         ELSE other] :
        txs \in SeqsUpTo(WrittenVisits, MaxEntries) \ {<<>>},
        second \in {<<>>, <<EnrichedPatient(2, <<EntryOlder, EntryNew, EntryOld>>, Nothing)>>},
        other \in {{}, WrittenTable("15", <<EnrichedPatient(1, <<EntryOld, EntryOlder>>,
                                                            Nothing)>>)}}

WrittenInit ==
    /\ \E t \in WrittenTables :
          cl = [pc |-> "ready", before |-> t, tables |-> t, modes |-> <<>>,
                total_stats |-> TotalStats0, db_results |-> <<>>, result |-> Nothing,
                again |-> Nothing]
    /\ rq = Parked /\ fl = Parked /\ en = Parked /\ st = Parked
    /\ pl = Parked /\ tk = Parked /\ vi = Parked
    /\ wb = Parked /\ rn = Parked /\ ch = Parked /\ hw = Parked

SpecWrittenCleaner == WrittenInit /\ [][CleanerNext]_vars

\* every entry of every row the cleaner meets there has a date that parses
WrittenRowsAreDated ==
    \A db \in DbNameSet : \A r \in cl.before[db] :
        /\ r.transactionDetails /= Nothing
        /\ \A k \in 1..Len(EntriesOf(r)) : Dated(EntriesOf(r)[k])

(***************************************************************************)
(* DatabaseSaveService.save_enriched_data_to_db: the save of a JSON file   *)
(* of enriched contacts.  No caller of it is in the repository; it writes  *)
(* the same table with one INSERT ... ON DUPLICATE KEY UPDATE per batch    *)
(* and never calls the tracker.                                            *)
(***************************************************************************)
DEFAULT_SAVE_BATCH_SIZE == 100

\* datetime.date(): the day of a timestamp
DateOf(t) == (t \div SecondsPerDay) * SecondsPerDay

MAX_CHAT_TYPE_LENGTH == 50
MAX_LANGUAGE_LENGTH == 10
MAX_PHONE_NUMBER_LENGTH == 20
MAX_UPN_LENGTH == 50

\* x[:n]: the first n characters of a string
Truncate(x, n) == IF Len(x) <= n THEN x ELSE SubSeq(x, 1, n)

\* `x[:n] if x else None` on an optional string
OrNone(x, n) == IF x = NONE \/ x = "" THEN NONE ELSE Truncate(x, n)

\* _prepare_patient_data: the column values of a contact, Nothing for a
\* contact the quality filters drop.  The latest visit is read with the
\* keys DoctorName, ClinicName and SpecialtyName, which a visit of the
\* external service (DrName, DeptName, BranchName) does not have, and the
\* visit map is left NULL.
PreparePatientData(dt, app_id, patient, now) ==
    IF QualitySkip(patient) THEN Nothing
    ELSE IF RecentTransactions(patient, now) = <<>> THEN Nothing
    ELSE LET recent == RecentTransactions(patient, now)
             latest == LatestTransaction(recent)
         IN Some([appId |-> app_id,
                  userPatientId |-> patient.userPatientId,
                  processTimestamp |-> dt,
                  chatType |-> OrNone(patient.chatType, MAX_CHAT_TYPE_LENGTH),
                  language |-> OrNone(patient.language, MAX_LANGUAGE_LENGTH),
                  phoneNumber |-> OrNone(patient.phoneNumber, MAX_PHONE_NUMBER_LENGTH),
                  hiysUpn |-> OrNone(patient.patientDetails[1].UPN, MAX_UPN_LENGTH),
                  hiysHastaBulundu |-> patient.patientFound,
                  hiysIslemBulundu |-> patient.transactionsFound,
                  toplamIslemSayisi |-> Len(recent),
                  sonIslemTarihi |-> Some(DateOf(ParseIsoDate(latest.TransactionDate)[1])),
                  sonDoktorAdi |-> Nothing,
                  ilkMesajTarihi |-> patient.ilkMesajTarihi,
                  transactionDetails |-> Nothing])

\* the prepared contacts of a file, hospital after hospital
RECURSIVE PreparedOf(_, _, _, _, _)
PreparedOf(dt, hospitals, h, i, now) ==
    IF h > Len(hospitals) THEN <<>>
    ELSE IF i > Len(hospitals[h].patients) THEN PreparedOf(dt, hospitals, h + 1, 1, now)
    ELSE LET v == PreparePatientData(dt, hospitals[h].appId, hospitals[h].patients[i], now)
         IN v \o PreparedOf(dt, hospitals, h, i + 1, now)

\* one row of the INSERT ... ON DUPLICATE KEY UPDATE.  keyed: the table has
\* a unique key on (appId, userPatientId); the schema is not part of the
\* repository.  With the key a row of the contact takes the new values and
\* keeps its id; without it the row is always added.  The statement takes
\* an AUTO_INCREMENT value for every row of VALUES, also for a row that
\* ends as an update.
UpsertRow(acc, v, keyed) ==
    LET existing == MatchingRows(acc.table, v.appId, v.userPatientId)
    IN IF keyed /\ existing /= {}
       THEN [table |-> {IF r \in existing THEN [id |-> r.id] @@ v ELSE r : r \in acc.table},
             nextId |-> acc.nextId + 1]
       ELSE [table |-> acc.table \cup {[id |-> acc.nextId] @@ v},
             nextId |-> acc.nextId + 1]

RECURSIVE UpsertRows(_, _, _, _)
UpsertRows(acc, batch_data, i, keyed) ==
    IF i > Len(batch_data) THEN acc
    ELSE UpsertRows(UpsertRow(acc, batch_data[i], keyed), batch_data, i + 1, keyed)

\* _save_batch_to_db: executemany of the batch as one statement; a refused
\* statement changes nothing, counts the whole batch as failed and raises
\* nothing.  The row count of the statement is only logged.
SaveBatchToDb(table, nextId, batch_data, keyed, refused) ==
    IF refused
    THEN [table |-> table, nextId |-> nextId, failed |-> Len(batch_data)]
    ELSE UpsertRows([table |-> table, nextId |-> nextId], batch_data, 1, keyed)
            @@ [failed |-> 0]

\* the batches of the loop: one each time batch_size rows are prepared, and
\* one for the rows left at the end
RECURSIVE BatchesOf(_, _)
BatchesOf(rows, batch_size) ==
    IF rows = <<>> THEN <<>>
    ELSE IF Len(rows) <= batch_size THEN <<rows>>
    ELSE <<SubSeq(rows, 1, batch_size)>>
            \o BatchesOf(SubSeq(rows, batch_size + 1, Len(rows)), batch_size)

RECURSIVE SaveEnrichedLoop(_, _, _, _, _)
SaveEnrichedLoop(acc, batches, k, keyed, refused) ==
    IF k > Len(batches) THEN acc
    ELSE LET r == SaveBatchToDb(acc.table, acc.nextId, batches[k], keyed, k \in refused)
         IN SaveEnrichedLoop([table |-> r.table, nextId |-> r.nextId,
                              total_failed |-> acc.total_failed + r.failed],
                             batches, k + 1, keyed, refused)

\* What the call meets:
\*   file    "ok" or "missing" (open or json.load raises)
\*   conn    "ok" or "refused"
\*   refused the batches whose statement the store refuses
\*   commit  "ok" or "fail" (commit raises, the rollback works)
FileModes ==
    {[file |-> f, conn |-> c, refused |-> R, commit |-> m] :
        f \in {"ok", "missing"}, c \in {"ok", "refused"}, R \in SUBSET {1},
        m \in {"ok", "fail"}}

\* save_enriched_data_to_db on the committed table; data is the content of
\* the file, ret the value returned
SaveEnrichedDataToDb(table, nextId, data, now, keyed, mode) ==
    IF mode.file /= "ok" \/ mode.conn /= "ok"
    THEN [table |-> table, nextId |-> nextId, ret |-> FALSE]
    ELSE
    LET rows == PreparedOf(data.timestamp, data.hospitals, 1, 1, now)
        acc == SaveEnrichedLoop([table |-> table, nextId |-> nextId, total_failed |-> 0],
                                BatchesOf(rows, DEFAULT_SAVE_BATCH_SIZE), 1, keyed,
                                mode.refused)
    IN [table |-> IF mode.commit = "ok" THEN acc.table ELSE table,
        nextId |-> acc.nextId,
        ret |-> mode.commit = "ok"]

\* a phone number of 24 characters and a language tag of 11
LongPhone == "+90 (555) 000 11 22 / 33"
LongLanguage == "tr-TR-x-abc"

\* the files saved: contact 1 of the first tenant alone, or with contact 2
\* and with a contact of the second tenant whose phone number and language
\* are longer than their columns
EnrichedFiles ==
    {[timestamp |-> Now0,
      hospitals |-> <<[appId |-> "14",
                       patients |-> <<EnrichedPatient(1, <<VisitA, VisitB>>, Nothing)>>]>>],
     [timestamp |-> Now0,
      hospitals |-> <<[appId |-> "14",
                       patients |-> <<EnrichedPatient(1, <<VisitA>>, Nothing),
                                      EnrichedPatient(2, <<VisitC>>, Nothing),
                                      BasicPatient(3)>>],
                      [appId |-> "15",
                       patients |-> <<[EnrichedPatient(1, <<VisitB>>, Nothing)
                                          EXCEPT !.phoneNumber = LongPhone,
                                                 !.language = LongLanguage]>>]>>]}

\* the store with its schema: with or without the unique key
FileInit ==
    /\ \E keyed \in BOOLEAN :
          st = [now |-> Now0, seed |-> 1, table |-> {}, nextId |-> 1,
                run_stats |-> StatsReset, ops |-> 0, ticks |-> 0, written |-> FALSE,
                last |-> NoOp, keyed |-> keyed]
    /\ rq = Parked /\ fl = Parked /\ en = Parked /\ pl = Parked
    /\ tk = Parked /\ cl = Parked /\ vi = Parked
    /\ wb = Parked /\ rn = Parked /\ ch = Parked /\ hw = Parked

StoreSaveEnriched(data, mode) ==
    /\ st.ops < MaxOps
    /\ LET saved(r) ==
               st' = [st EXCEPT
                        !.table = r.table,
                        !.nextId = r.nextId,
                        !.ops = @ + 1,
                        !.last = [op |-> "file", ret |-> r.ret]]
       IN saved(SaveEnrichedDataToDb(st.table, st.nextId, data, st.now, st.keyed, mode))
    /\ UNCHANGED <<rq, fl, en, pl, tk, cl, vi, wb, rn, ch, hw>>

\* the file save among batch writes and cleaner runs
FileNext ==
    \/ \E data \in EnrichedFiles, mode \in FileModes : StoreSaveEnriched(data, mode)
    \/ \E batch \in StoreBatches :
          \E mode \in BatchModes(Len(batch)) : StoreWriteBatch(batch, "14", mode)
    \/ \E mode \in CleanupModes : StoreCleanup(mode)
    \/ StoreTick

SpecStoreFile == FileInit /\ [][FileNext]_vars

\* the file save never calls the tracker
FileSaveLeavesTracker ==
    [][st'.last.op = "file" => st'.run_stats = st.run_stats]_vars

\* a row of the file save has a visit count and no visit map
FileRowHasNoMap ==
    \A r \in st.table :
        r.transactionDetails = Nothing => r.toplamIslemSayisi >= 1 /\ r.sonDoktorAdi = Nothing

\* the strings of a row of the file save fit their columns, and the long
\* phone number is stored cut to its first 20 characters
FileRowFitsColumns ==
    \A r \in st.table :
        r.transactionDetails = Nothing =>
            /\ Len(r.phoneNumber) <= MAX_PHONE_NUMBER_LENGTH
            /\ Len(r.language) <= MAX_LANGUAGE_LENGTH
            /\ r.phoneNumber /= LongPhone
FileRowTruncated ==
    \E r \in st.table : r.phoneNumber = "+90 (555) 000 11 22 " /\ r.language = "tr-TR-x-ab"

\* the id counter has run ahead of the rows of a keyed store that holds
\* rows of the file save only: an upsert of a stored contact, or a save
\* rolled back, took ids
UpsertTakesId ==
    /\ st.keyed
    /\ st.last.op = "file"
    /\ st.nextId > 1 + Cardinality(st.table)
    /\ \A r \in st.table : r.transactionDetails = Nothing

\* with the unique key the table holds one row per contact
KeyedStoreOneRowPerKey ==
    st.keyed =>
        \A r1, r2 \in st.table :
            (r1.appId = r2.appId /\ r1.userPatientId = r2.userPatientId) => r1 = r2

\* without the key two file saves leave two rows of one contact, and the
\* batch writer then fails on that contact and commits nothing
DuplicateStopsWriter ==
    /\ st.last.op = "write"
    /\ st.last.systemic
    /\ st.last.ret /= Nothing
    /\ st.last.table_kept
    /\ \E i \in 1..Len(st.last.outcomes) : st.last.outcomes[i] = "failed"
    /\ \E r1, r2 \in st.table :
          r1 /= r2 /\ r1.appId = r2.appId /\ r1.userPatientId = r2.userPatientId

\* ------------------------------------------------------------------------
\* C1: after any sequence of batch writes and cleaner runs on a store that
\* started empty, the table holds at most one row per (appId, userPatientId).
C1_OneRowPerKey ==
    \A r1, r2 \in st.table :
        (r1.appId = r2.appId /\ r1.userPatientId = r2.userPatientId) => r1 = r2

\* two tenants' rows side by side, one of them just rewritten by an update
C1_Witness ==
    /\ st.last.op = "write"
    /\ ~st.last.systemic
    /\ InSeq("updated", st.last.outcomes)
    /\ \E r1, r2 \in st.table :
          r1.userPatientId = r2.userPatientId /\ r1.appId /= r2.appId

\* C3: in every state of the store, each row's toplamIslemSayisi equals the
\* number of entries of its transactionDetails map.
C3_CountMatchesDetails ==
    \A r \in st.table :
        /\ r.transactionDetails /= Nothing
        /\ r.toplamIslemSayisi = Len(r.transactionDetails[1])

\* a cleaner run has just pruned a two-visit row down to one visit
C3_Witness ==
    /\ st.last.op = "cleanup"
    /\ ~st.last.raised
    /\ st.last.stats.cleaned_records >= 1
    /\ \E r \in st.table :
          /\ r.toplamIslemSayisi = 1
          /\ Len(r.transactionDetails[1]) = 1
          /\ r.transactionDetails[1][1].val.DrName = "DrB"
          /\ r.sonDoktorAdi = Some("DrB")
          /\ r.processTimestamp < st.now

\* C4: when the call fails as a whole (connection refused or lost, commit
\* failed), nothing of the batch is committed and neither the returned
\* counts nor the run statistics report a contact of it as inserted or
\* updated.
C4_SystemicFailureReportsNothing ==
    (st.last.op = "write" /\ st.last.systemic) =>
        /\ st.last.table_kept
        /\ st.last.ret /= Nothing =>
              st.last.ret[1].new = 0 /\ st.last.ret[1].updated = 0
        /\ st.last.reported_new = 0
        /\ st.last.reported_updated = 0

\* what does hold of a call that fails as a whole: nothing is committed
C4_SystemicFailureRollsBack ==
    (st.last.op = "write" /\ st.last.systemic) => st.last.table_kept

\* a batch whose commit failed: rolled back, yet one contact reported new
C4_Witness ==
    /\ st.last.op = "write"
    /\ st.last.systemic
    /\ st.last.table_kept
    /\ st.last.ret /= Nothing
    /\ st.last.ret[1].new = 1
    /\ st.last.reported_new = 1

\* C14: a batch-writer call that returns adds to the tracker exactly the
\* counts it returns, kind by kind, whether the batch was committed or
\* rolled back.
C14_TrackerDeltaIsReturn ==
    (st.last.op = "write" /\ st.last.ret /= Nothing) =>
        /\ st.last.reported_new = st.last.ret[1].new
        /\ st.last.reported_updated = st.last.ret[1].updated
        /\ st.last.reported_skipped = st.last.ret[1].skipped
        /\ st.last.reported_failed = st.last.ret[1].failed

\* a rolled-back batch in which one contact was written and one skipped
C14_Witness ==
    /\ st.last.op = "write"
    /\ st.last.systemic
    /\ st.last.ret /= Nothing
    /\ st.last.ret[1].skipped = 1
    /\ st.last.ret[1].new + st.last.ret[1].updated = 1
    /\ st.last.reported_skipped = 1

(***************************************************************************)
(* The run: CronServiceCoordinator.run_data_processing over               *)
(* DataProcessor.process_all_hospitals and enrich_data_with_hiys_batch,    *)
(* HIYSAPIService.process_batch and the batch writer, tenant by tenant.    *)
(* The external service answers each contact the same way in every run.    *)
(***************************************************************************)
MaxRuns == 2
\* the clock reading of a run is this much later than the previous run's
RunGapSeconds == 3600

\* the candidate query's rows per tenant store (ORDER BY up.id DESC)
Candidates == [a \in AppIds |-> IF a = "14" THEN <<2, 1>> ELSE <<1>>]
ContactKeys ==
    UNION {{<<a, Candidates[a][i]>> : i \in 1..Len(Candidates[a])} : a \in AppIds}

\* how the external service and the chat log answer for one contact
ExtGood ==
    [db |-> "ok", chat |-> {Now0 - 5 * SecondsPerDay},
     idOracle |-> <<Http(503), Ok>>,
     idBody |-> [kind |-> "patients", patients |-> <<PatientDetail("1001")>>],
     txOracle |-> <<Ok>>,
     txBody |-> [kind |-> "transactions",
                 transactions |-> <<Tx(DateStr("T", Now0 - 2 * SecondsPerDay), "DrA"),
                                    Tx(DateStr("sp", Now0 - 1 * SecondsPerDay), "DrB")>>]]
ExtClientError == [ExtGood EXCEPT !.idOracle = <<Http(404), Http(404), Http(404)>>]
ExtTimeouts == [ExtGood EXCEPT !.txOracle = <<Timeout, Timeout, Timeout>>]
\* the identity lookup answers, with no patient for this phone number
ExtNoMatch == [ExtGood EXCEPT !.idBody = [kind |-> "patients", patients |-> <<>>]]
ExtProfiles == {ExtGood, ExtClientError, ExtTimeouts, ExtNoMatch}
\* the answers explored for each contact
WorldProfiles(k) ==
    CASE k = <<"14", 2>> -> {ExtGood, ExtClientError, ExtNoMatch}
      [] k = <<"14", 1>> -> {ExtGood, ExtNoMatch}
      [] OTHER -> {ExtGood, ExtTimeouts}
\* the contact whose identity the service may stop matching between runs
DriftKey == <<"14", 2>>

\* the call to the external service for this contact ended without a result
ExternalError(ext, max_retries) ==
    \/ MakeRequest(ext.idOracle, max_retries) = NONE
    \/ MakeRequest(ext.txOracle, max_retries) = NONE

\* process_hospital_data: the tenant's candidates, or nothing when the
\* tenant store cannot be reached
ProcessHospitalData(hospital_config, read) ==
    IF read = "down"
    THEN [appId |-> NONE, patients |-> <<>>]
    ELSE IF read = "query"           \* the appId was read, the candidate query raised
    THEN [appId |-> hospital_config.appId, patients |-> <<>>]
    ELSE IF read = "appid"           \* get_hospital_app_id gave None, the candidates were read
    THEN [appId |-> NONE,
          patients |-> [i \in 1..Len(Candidates[hospital_config.appId]) |->
                           PatientData(Candidates[hospital_config.appId][i])]]
    ELSE [appId |-> hospital_config.appId,
          patients |-> [i \in 1..Len(Candidates[hospital_config.appId]) |->
                           PatientData(Candidates[hospital_config.appId][i])]]

\* variant: the loop over the registry ends at the first tenant that
\* cannot be read
ProcessAllHospitalsStopAtFailure(hospital_configs, reads) ==
    LET failed == {i \in 1..Len(hospital_configs) : reads[i] /= "ok"}
        n == IF failed = {} THEN Len(hospital_configs)
             ELSE CHOOSE i \in failed : \A j \in failed : i <= j
    IN [i \in 1..n |-> ProcessHospitalData(hospital_configs[i], reads[i])]

\* process_all_hospitals over a registry: one entry per configuration,
\* whether it could be read or not
ProcessAllHospitalsIn(hospital_configs, reads) ==
    [i \in 1..Len(hospital_configs) |-> ProcessHospitalData(hospital_configs[i], reads[i])]

\* process_all_hospitals
ProcessAllHospitals(reads) ==
    [i \in 1..Len(Registry) |-> ProcessHospitalData(Registry[i], reads[i])]

\* variant: an enriched contact is put in front of the earlier ones
RECURSIVE ProcessBatchLoopPrepend(_, _, _, _, _, _)
ProcessBatchLoopPrepend(acc, patients, i, app_id, world, now) ==
    IF i > Len(patients) THEN acc
    ELSE LET e == EnrichPatientData(patients[i], app_id,
                                    world[<<app_id, patients[i].userPatientId>>],
                                    DEFAULT_HIYS_MAX_RETRIES, now)
         IN ProcessBatchLoopPrepend(
               IF e = Nothing
               THEN [acc EXCEPT !.skipped_count = @ + 1,
                                !.attempted = Append(@, patients[i].userPatientId)]
               ELSE [acc EXCEPT !.enriched_patients = <<e[1]>> \o @,
                                !.attempted = Append(@, patients[i].userPatientId)],
               patients, i + 1, app_id, world, now)

\* variant: the loop ends at the first contact that is not enriched
RECURSIVE ProcessBatchStopAtNone(_, _, _, _, _, _)
ProcessBatchStopAtNone(acc, patients, i, app_id, world, now) ==
    IF i > Len(patients) THEN acc
    ELSE LET e == EnrichPatientData(patients[i], app_id,
                                    world[<<app_id, patients[i].userPatientId>>],
                                    DEFAULT_HIYS_MAX_RETRIES, now)
         IN IF e = Nothing
            THEN [acc EXCEPT !.skipped_count = @ + 1,
                             !.attempted = Append(@, patients[i].userPatientId)]
            ELSE ProcessBatchStopAtNone(
                    [acc EXCEPT !.enriched_patients = Append(@, e[1]),
                                !.attempted = Append(@, patients[i].userPatientId)],
                    patients, i + 1, app_id, world, now)

\* process_batch: the per-contact loop; a contact whose enrichment returns
\* None (or raises) is counted as skipped and the loop goes on
RECURSIVE ProcessBatchLoop(_, _, _, _, _, _)
ProcessBatchLoop(acc, patients, i, app_id, world, now) ==
    IF i > Len(patients) THEN acc
    ELSE LET e == EnrichPatientData(patients[i], app_id,
                                    world[<<app_id, patients[i].userPatientId>>],
                                    DEFAULT_HIYS_MAX_RETRIES, now)
         IN ProcessBatchLoop(
               IF e = Nothing
               THEN [acc EXCEPT !.skipped_count = @ + 1,
                                !.attempted = Append(@, patients[i].userPatientId)]
               ELSE [acc EXCEPT !.enriched_patients = Append(@, e[1]),
                                !.attempted = Append(@, patients[i].userPatientId)],
               patients, i + 1, app_id, world, now)

ProcessBatch(patients, app_id, world, now) ==
    ProcessBatchLoop([enriched_patients |-> <<>>, skipped_count |-> 0, attempted |-> <<>>],
                     patients, 1, app_id, world, now)

\* the configuration whose appId equals app_id, if any
FindConfig(app_id) ==
    IF \E i \in 1..Len(Registry) : Registry[i].appId = app_id
    THEN Some(Registry[CHOOSE i \in 1..Len(Registry) :
                 /\ Registry[i].appId = app_id
                 /\ \A j \in 1..(i - 1) : Registry[j].appId /= app_id])
    ELSE Nothing

\* no writer call is made
NoWrite == [conn |-> "none", at |-> 0, rejects |-> {}, commit |-> "ok"]

PipelineInit ==
    /\ pl \in [pc : {"idle"},
               now : {Now0},
               seed : {1},
               world : {w \in [ContactKeys -> ExtProfiles] :
                           \A k \in ContactKeys : w[k] \in WorldProfiles(k)},
               fresh : {TRUE},
               drifted : {FALSE},
               tables : {[a \in AppIds |-> {}]},
               nextId : {[a \in AppIds |-> 1]},
               proc_stats : {StatsReset},      \* DataProcessor.db_save_service.run_stats
               coord_stats : {StatsReset},     \* CronServiceCoordinator.db_save_service.run_stats
               runs : {0},
               h : {0},
               hospitals : {<<>>},
               timestamp : {0},
               total_patients_processed : {0},
               total_patients_saved : {0},
               log : {<<>>},
               result : {Nothing}]
    /\ rq = Parked /\ fl = Parked /\ en = Parked /\ st = Parked
    /\ tk = Parked /\ cl = Parked /\ vi = Parked
    /\ wb = Parked /\ rn = Parked /\ ch = Parked /\ hw = Parked

\* run_data_processing up to the start of the enrichment loop.  fresh: the
\* run is a new process (main), so both trackers are newly constructed;
\* otherwise run() is called again on the same coordinator.
PipelineRunStart(fresh, drift, reads) ==
    /\ pl.pc \in {"idle", "finished"}
    /\ pl.runs < MaxRuns
    /\ pl.runs = 0 => fresh /\ ~drift
    /\ drift => pl.world[DriftKey] = ExtGood
    /\ pl' = [pl EXCEPT
                !.pc = "tenants",
                !.runs = @ + 1,
                !.fresh = fresh,
                !.drifted = @ \/ drift,
                !.world = IF drift THEN [@ EXCEPT ![DriftKey] = ExtNoMatch] ELSE @,
                !.now = IF pl.runs = 0 THEN @ ELSE @ + RunGapSeconds,
                !.coord_stats = StatsReset,
                !.proc_stats = IF fresh THEN StatsReset ELSE @,
                !.hospitals = ProcessAllHospitals(reads),
                !.h = 1,
                !.timestamp = IF pl.runs = 0 THEN pl.now ELSE pl.now + RunGapSeconds,
                !.total_patients_processed = 0,
                !.total_patients_saved = 0,
                !.log = Append(@, <<>>),
                !.result = Nothing]
    /\ UNCHANGED <<rq, fl, en, st, tk, cl, vi, wb, rn, ch, hw>>

\* one iteration of the `for hospital in processed_data.hospitals` loop
PipelineTenant(conn, mode) ==
    /\ pl.pc = "tenants"
    /\ pl.h <= Len(pl.hospitals)
    /\ LET hospital == pl.hospitals[pl.h]
           app_id == IF hospital.appId = NONE THEN "" ELSE hospital.appId
           hospital_config == FindConfig(app_id)
           rec(status, b, w) ==
               [config |-> Registry[pl.h].appId, status |-> status,
                untouched |-> w.untouched,
                attempted |-> b.attempted,
                enriched |-> [i \in 1..Len(b.enriched_patients) |->
                                 b.enriched_patients[i].userPatientId],
                skipped_count |-> b.skipped_count,
                outcomes |-> w.outcomes, ret |-> w.ret,
                committed |-> w.committed, clean |-> w.clean]
           nobatch == [enriched_patients |-> <<>>, skipped_count |-> 0, attempted |-> <<>>]
           ids == {hospital.patients[i].userPatientId : i \in 1..Len(hospital.patients)}
           nowrite == [outcomes |-> <<>>, ret |-> Nothing, committed |-> FALSE,
                       clean |-> TRUE, untouched |-> ids]
           logged(r) == [pl.log EXCEPT ![Len(pl.log)] = Append(@, r)]
       IN
       IF hospital_config = Nothing
       THEN /\ conn = "ok" /\ mode = NoWrite
            /\ pl' = [pl EXCEPT !.h = @ + 1, !.log = logged(rec("noconfig", nobatch, nowrite))]
       ELSE IF conn = "down"
       THEN /\ mode = NoWrite
            /\ pl' = [pl EXCEPT !.h = @ + 1, !.log = logged(rec("connfail", nobatch, nowrite))]
       ELSE
       LET wrote(b, w) ==
               pl' = [pl EXCEPT
                        !.h = @ + 1,
                        !.total_patients_processed = @ + Len(hospital.patients),
                        !.total_patients_saved =
                            IF w.ret = Nothing THEN @ ELSE @ + w.ret[1].new,
                        !.tables[app_id] = w.table,
                        !.nextId[app_id] = w.nextId,
                        !.proc_stats = w.stats,
                        !.log = logged(rec("done", b,
                                  [outcomes |-> w.outcomes, ret |-> w.ret,
                                   untouched |->
                                       {id \in ids :
                                           MatchingRows(w.table, app_id, id) =
                                           MatchingRows(pl.tables[app_id], app_id, id)},
                                   committed |-> w.committed,
                                   clean |-> mode.conn = "ok" /\ mode.commit = "ok"
                                             /\ mode.rejects = {}]))]
           enriched(b) ==
               IF b.enriched_patients = <<>>
               THEN /\ mode = NoWrite
                    /\ pl' = [pl EXCEPT
                                !.h = @ + 1,
                                !.total_patients_processed = @ + Len(hospital.patients),
                                !.log = logged(rec("done", b, nowrite))]
               ELSE /\ mode \in BatchModes(Len(b.enriched_patients))
                    /\ wrote(b, SaveBatchToDbOptimized(
                                   pl.tables[app_id], pl.nextId[app_id], pl.proc_stats,
                                   pl.timestamp, app_id, b.enriched_patients, pl.now,
                                   pl.seed, mode))
       IN enriched(ProcessBatch(hospital.patients, app_id, pl.world, pl.now))
    /\ UNCHANGED <<rq, fl, en, st, tk, cl, vi, wb, rn, ch, hw>>

\* the end of enrich_data_with_hiys_batch and of run_data_processing
PipelineRunFinish ==
    /\ pl.pc = "tenants"
    /\ pl.h > Len(pl.hospitals)
    /\ pl' = [pl EXCEPT
                !.pc = "finished",
                !.result =
                    IF pl.total_patients_processed = 0
                    THEN Some([success |-> FALSE, added |-> 0, updated |-> 0])
                    ELSE Some([success |-> TRUE,
                               added |-> pl.proc_stats.new_records,
                               updated |-> pl.proc_stats.updated_records])]
    /\ UNCHANGED <<rq, fl, en, st, tk, cl, vi, wb, rn, ch, hw>>

Next ==
    \/ \E fresh, drift \in BOOLEAN, reads \in [1..Len(Registry) -> {"ok", "down"}] :
          PipelineRunStart(fresh, drift, reads)
    \/ \E conn \in {"ok", "down"}, mode \in {NoWrite} \cup BatchModes(MaxBatch) \cup BatchModes(1) :
          PipelineTenant(conn, mode)
    \/ PipelineRunFinish

Spec == PipelineInit /\ [][Next]_vars

\* what a tenant record of the run log says happened to a contact
OutcomeOf(rec, id) ==
    IF \E i \in 1..Len(rec.outcomes) : rec.enriched[i] = id
    THEN rec.outcomes[CHOOSE i \in 1..Len(rec.outcomes) : rec.enriched[i] = id]
    ELSE "none"

\* C2: of two runs with the same external answers, the second reports
\* 'updated' for every contact the first reported 'inserted' (whenever the
\* second run reaches that tenant and its write goes through), and the
\* tenant's table then holds exactly one row for that contact.
C2_SecondRunUpdates ==
    (pl.pc = "finished" /\ Len(pl.log) = 2 /\ ~pl.drifted) =>
        \A t \in 1..Len(Registry) :
            \A i \in 1..Len(Candidates[Registry[t].appId]) :
                LET a == Registry[t].appId
                    id == Candidates[a][i]
                IN (/\ OutcomeOf(pl.log[1][t], id) = "inserted"
                    /\ pl.log[2][t].status = "done"
                    /\ pl.log[2][t].clean)
                   => /\ OutcomeOf(pl.log[2][t], id) = "updated"
                      /\ Cardinality(MatchingRows(pl.tables[a], a, id)) = 1

\* the same with a first run whose write was committed: this part holds
C2_SecondRunUpdatesCommitted ==
    (pl.pc = "finished" /\ Len(pl.log) = 2 /\ ~pl.drifted) =>
        \A t \in 1..Len(Registry) :
            \A i \in 1..Len(Candidates[Registry[t].appId]) :
                LET a == Registry[t].appId
                    id == Candidates[a][i]
                IN (/\ OutcomeOf(pl.log[1][t], id) = "inserted"
                    /\ pl.log[1][t].committed
                    /\ pl.log[2][t].status = "done"
                    /\ pl.log[2][t].clean)
                   => /\ OutcomeOf(pl.log[2][t], id) = "updated"
                      /\ Cardinality(MatchingRows(pl.tables[a], a, id)) = 1

\* two runs, the first of which reported a contact as inserted and did not
\* store it, the second of which inserted it again
C2_Witness ==
    /\ pl.pc = "finished"
    /\ ~pl.drifted
    /\ Len(pl.log) = 2
    /\ OutcomeOf(pl.log[1][1], 1) = "inserted"
    /\ pl.log[2][1].status = "done"
    /\ pl.log[2][1].clean
    /\ OutcomeOf(pl.log[2][1], 1) = "inserted"

\* C7: a contact whose external call ends in an error of either class is
\* not enriched and gets no write outcome (so is never counted as failed);
\* every candidate of every tenant that could be reached is still attempted
\* and the contacts the service answers for with a patient are enriched; the run succeeds
\* exactly when some reached tenant had candidates, whatever the errors.
C7_ExternalErrorsAbsorbed ==
    pl.pc = "finished" =>
        LET run == pl.log[Len(pl.log)] IN
        /\ Len(run) = Len(Registry)
        /\ \A t \in 1..Len(run) :
              run[t].status = "done" =>
                LET a == run[t].config IN
                /\ run[t].attempted = Candidates[a]
                /\ \A i \in 1..Len(Candidates[a]) :
                      LET id == Candidates[a][i] IN
                      IF ExternalError(pl.world[<<a, id>>], DEFAULT_HIYS_MAX_RETRIES)
                      THEN /\ ~InSeq(id, run[t].enriched)
                           /\ OutcomeOf(run[t], id) = "none"
                      ELSE IdentityFoundIn(pl.world[<<a, id>>]) =>
                               InSeq(id, run[t].enriched)
                /\ run[t].skipped_count + Len(run[t].enriched) = Len(Candidates[a])
        /\ pl.result /= Nothing
        /\ pl.result[1].success =
              (\E t \in 1..Len(run) :
                  run[t].status = "done" /\ Candidates[run[t].config] /= <<>>)

\* a run in which the first candidate of one tenant hit a 4xx, the next
\* candidate was still enriched and inserted, the other tenant's only
\* candidate ran out of retries, and the run is a success
C7_Witness ==
    /\ pl.pc = "finished"
    /\ pl.world[<<"14", 2>>] = ExtClientError
    /\ pl.world[<<"14", 1>>] = ExtGood
    /\ pl.world[<<"15", 1>>] = ExtTimeouts
    /\ Len(pl.log[Len(pl.log)]) = 2
    /\ pl.log[Len(pl.log)][1].status = "done"
    /\ pl.log[Len(pl.log)][1].enriched = <<1>>
    /\ pl.log[Len(pl.log)][1].outcomes = <<"inserted">>
    /\ pl.log[Len(pl.log)][2].status = "done"
    /\ pl.log[Len(pl.log)][2].enriched = <<>>
    /\ pl.result = Some([success |-> TRUE, added |-> 1, updated |-> 0])

\* the identity endpoint answered and named no patient for the contact
NoIdentityMatch(e) ==
    /\ MakeRequest(e.idOracle, DEFAULT_HIYS_MAX_RETRIES) /= NONE
    /\ GetPatientDetails(e.idOracle, e.idBody, DEFAULT_HIYS_MAX_RETRIES) = Nothing

\* the candidates of a tenant record whose identity lookup found no match
UnmatchedOf(rec) ==
    {id \in {Candidates[rec.config][i] : i \in 1..Len(Candidates[rec.config])} :
        NoIdentityMatch(pl.world[<<rec.config, id>>])}

\* C11: a contact whose identity lookup returns no match gets the write
\* outcome 'skipped', the run's skipped counter covers every such contact,
\* and the rows stored for the contact are the same before and after the
\* tenant's step.
C11_NoMatchIsSkipped ==
    pl.pc = "finished" =>
        LET run == pl.log[Len(pl.log)] IN
        \A t \in 1..Len(run) :
            run[t].status = "done" =>
                /\ \A id \in UnmatchedOf(run[t]) :
                      /\ OutcomeOf(run[t], id) = "skipped"
                      /\ id \in run[t].untouched
                /\ pl.proc_stats.skipped_records >= Cardinality(UnmatchedOf(run[t]))

\* the part of C11 the code keeps: the unmatched contact is left out of the
\* batch handed to the writer, is counted by process_batch only, and its
\* stored rows (one may exist from an earlier run) stay as they were
C11_NoMatchLeavesStore ==
    pl.pc = "finished" =>
        LET run == pl.log[Len(pl.log)] IN
        \A t \in 1..Len(run) :
            run[t].status = "done" =>
                /\ \A id \in UnmatchedOf(run[t]) :
                      /\ ~InSeq(id, run[t].enriched)
                      /\ OutcomeOf(run[t], id) = "none"
                      /\ id \in run[t].untouched
                /\ run[t].skipped_count >= Cardinality(UnmatchedOf(run[t]))

\* a second run meets a contact whose identity no longer matches while
\* the first run's row for it is in the table
C11_Witness ==
    /\ pl.pc = "finished"
    /\ Len(pl.log) = 2
    /\ pl.drifted
    /\ pl.log[2][1].status = "done"
    /\ DriftKey[2] \in UnmatchedOf(pl.log[2][1])
    /\ \E r \in pl.tables["14"] : r.userPatientId = DriftKey[2]

\* how many contacts of a run the writer recorded with the outcome kind
RECURSIVE CountKind(_, _)
CountKind(outcomes, kind) ==
    IF outcomes = <<>> THEN 0
    ELSE (IF outcomes[1] = kind THEN 1 ELSE 0) + CountKind(Tail(outcomes), kind)

RECURSIVE RunCount(_, _)
RunCount(run, kind) ==
    IF run = <<>> THEN 0
    ELSE CountKind(run[1].outcomes, kind) + RunCount(Tail(run), kind)

\* C12: the statistics read at the end of the second of two runs count
\* only the outcomes the writer recorded during the second run, also when
\* both runs are executed by the same coordinator in one process.
C12_SecondRunCountsOwnOutcomes ==
    (pl.pc = "finished" /\ Len(pl.log) = 2 /\ pl.result[1].success) =>
        /\ pl.result[1].added = RunCount(pl.log[2], "inserted")
        /\ pl.result[1].updated = RunCount(pl.log[2], "updated")

\* the statistics of a run in a newly started process are its own: the
\* trackers are constructed with the services
C12_FreshProcessCountsOwnOutcomes ==
    (pl.pc = "finished" /\ pl.fresh /\ pl.result[1].success) =>
        /\ pl.result[1].added = RunCount(pl.log[Len(pl.log)], "inserted")
        /\ pl.result[1].updated = RunCount(pl.log[Len(pl.log)], "updated")
        /\ pl.proc_stats.skipped_records = RunCount(pl.log[Len(pl.log)], "skipped")
        /\ pl.proc_stats.failed_records = RunCount(pl.log[Len(pl.log)], "failed")

\* the coordinator's own tracker is the one reset at the start of each
\* run, and no writer ever records into it
C12_CoordinatorTrackerIdle ==
    pl.coord_stats = StatsReset

(***************************************************************************)
(* CronServiceCoordinator.run: the cleanup phase, then data processing     *)
(* tenant by tenant, then the summary.  The credentials and the tenant     *)
(* registry are inputs of the run.                                         *)
(***************************************************************************)
\* the end of enrich_data_with_hiys_batch as run_data_processing returns it
ProcessingResult(total_patients_processed, stats) ==
    IF total_patients_processed = 0
    THEN [success |-> FALSE, added |-> 0, updated |-> 0]
    ELSE [success |-> TRUE, added |-> stats.new_records, updated |-> stats.updated_records]

ProcessingFailed == [success |-> FALSE, added |-> 0, updated |-> 0]

\* variant: the password is not looked at
RunDataProcessingEntryUnchecked(db_password, registry, reads) ==
    LET hospitals == ProcessAllHospitalsIn(registry, reads)
    IN IF hospitals = <<>>
       THEN [go |-> FALSE, hospitals |-> <<>>]
       ELSE [go |-> TRUE, hospitals |-> hospitals]

\* run_data_processing up to the enrichment: the password check,
\* process_all_hospitals over the registry, the empty-result check (the
\* reset of line 76 acts on the coordinator's own tracker, which no write
\* touches)
RunDataProcessingEntry(db_password, registry, reads) ==
    IF db_password = ""
    THEN [go |-> FALSE, hospitals |-> <<>>]
    ELSE
    LET hospitals == ProcessAllHospitalsIn(registry, reads)
    IN IF hospitals = <<>>
       THEN [go |-> FALSE, hospitals |-> <<>>]
       ELSE [go |-> TRUE, hospitals |-> hospitals]

\* run(): overall_success over the two enabled services
OverallSuccess(cleanup, processing) == cleanup.success /\ processing.success

\* the tenant stores at the start of a run: empty; or a row with one visit
\* older than the cutoff in the first and a row with two such visits in the
\* second
RunTables ==
    {[d \in DbNameSet |-> {}],
     [d \in DbNameSet |-> IF d = "sanapratikcrm_db" THEN {StoredRow(1, "14", 1, <<EntryOld>>)}
                          ELSE {StoredRow(1, "15", 1, <<EntryOld, EntryOlder>>)}]}

\* the external answers of a run
RunWorlds ==
    {w \in [ContactKeys -> ExtProfiles] :
        /\ w[<<"14", 2>>] \in {ExtGood, ExtNoMatch}
        /\ w[<<"14", 1>>] = ExtGood
        /\ w[<<"15", 1>>] \in {ExtGood, ExtTimeouts}}

\* `finally: if connection and connection.is_connected(): connection.close()`
\* of the writer and the cleaner, and DatabaseService.disconnect: what has
\* become of the connection the call opened, if it opened one.  "lost" is a
\* connection the server side of which is gone.
ConnectionAfterFinally(opened, alive) ==
    IF ~opened THEN "none" ELSE IF alive THEN "closed" ELSE "lost"

\* save_batch_to_db_optimized under a store behaviour
WriterConnection(mode) == ConnectionAfterFinally(mode.conn /= "refused", mode.conn = "ok")

\* cleanup_old_data under a store behaviour
CleanerConnection(mode) == ConnectionAfterFinally(mode /= "connect", TRUE)

\* `with DatabaseService(...)` of the candidate reading: __enter__ raises
\* when the connection is not made, __exit__ disconnects
CandidateConnection(read) == ConnectionAfterFinally(read /= "down", TRUE)

\* what the store does during the record count that follows a write: it
\* answers, it refuses the connection, or the SELECT raises
VerifyModes == {"ok", "refused", "error"}

\* _get_actual_db_record_count: connection.close() is the last statement of
\* the try block; the except block returns None
VerifyConnection(verify) ==
    CASE verify = "refused" -> "none"
      [] verify = "error" -> "open"
      [] OTHER -> "closed"

\* _get_total_db_record_count: as the record count above, close() is the
\* last statement of the try block and the except block returns None
GetTotalDbRecordCount(mode) ==
    CASE mode = "refused" -> "none"
      [] mode = "error" -> "open"
      [] OTHER -> "closed"

\* _get_recent_db_record_count: the same with the count of the last hour
GetRecentDbRecordCount(mode) ==
    CASE mode = "refused" -> "none"
      [] mode = "error" -> "open"
      [] OTHER -> "closed"

\* the "Final database verification" loop of enrich_data_with_hiys_batch:
\* for every hospital of processed_data whose appId has a configuration
\* with a dbName, the total count and then the recent count, each on a
\* connection of its own; total and recent are what the store does during
\* each.  A hospital without appId finds no configuration.
FinalVerification(hospitals, total, recent) ==
    [k \in 1..(2 * Len(hospitals)) |->
        LET i == (k + 1) \div 2
            app_id == hospitals[i].appId
            hospital_config == IF app_id = NONE THEN Nothing ELSE FindConfig(app_id)
        IN IF hospital_config = Nothing
           THEN [by |-> "total", db |-> "", tenant |-> i, state |-> "none"]
           ELSE IF k % 2 = 1
           THEN [by |-> "total", db |-> hospital_config[1].dbName, tenant |-> i,
                 state |-> GetTotalDbRecordCount(total)]
           ELSE [by |-> "recent", db |-> hospital_config[1].dbName, tenant |-> i,
                 state |-> GetRecentDbRecordCount(recent)]]

\* the connections of a list that were made
Made(conns) == SelectSeq(conns, LAMBDA c : c.state /= "none")

RunInit ==
    /\ \E db_password \in {"set", ""}, registry \in {Registry, <<>>},
          world \in RunWorlds, t \in RunTables :
          rn = [pc |-> "cleanup",
                db_password |-> db_password,
                registry |-> registry,
                now |-> Now0, seed |-> 1,
                world |-> world,
                start |-> t, tables |-> t, cleaned |-> t,
                nextId |-> [d \in DbNameSet |-> 3],
                stats |-> StatsReset,
                db_results |-> <<>>,
                cleanup |-> Nothing,
                cleaner |-> Nothing,
                reads |-> <<>>, hospitals |-> <<>>, h |-> 0,
                total_patients_processed |-> 0,
                pending |-> Nothing,
                conns |-> <<>>,
                trace |-> <<>>,
                log |-> <<>>,
                processing |-> Nothing,
                overall |-> Nothing,
                notified |-> FALSE]
    /\ rq = Parked /\ fl = Parked /\ en = Parked /\ st = Parked
    /\ pl = Parked /\ tk = Parked /\ cl = Parked /\ vi = Parked
    /\ wb = Parked /\ ch = Parked /\ hw = Parked

\* Phase 1 of run(): run_data_cleanup over the stores
\* _get_hospitals_from_config names.  With an empty registry that is the
\* default store, which is none of the tenant stores and holds no rows here.
RunCleanup(modes) ==
    /\ rn.pc = "cleanup"
    /\ rn.registry = <<>> => \A d \in DbNameSet : modes[d] = modes[DbNames[1]]
    /\ LET db_names == GetHospitalsFromConfig(rn.registry)
           stores == IF rn.registry = <<>> THEN ("vatanpratikcrm_db" :> {}) ELSE rn.tables
           how == IF rn.registry = <<>> THEN ("vatanpratikcrm_db" :> modes[DbNames[1]])
                  ELSE modes
           cleaned(r) ==
               rn' = [rn EXCEPT
                        !.pc = "processing",
                        !.tables = IF rn.registry = <<>> THEN @ ELSE r.tables,
                        !.cleaned = IF rn.registry = <<>> THEN @ ELSE r.tables,
                        !.db_results = [d \in DOMAIN r.db_results |->
                                           r.db_results[d].status],
                        !.cleaner = Some([total_stats |-> r.total_stats,
                                          db_results |-> r.db_results]),
                        !.conns = Made([i \in 1..Len(db_names) |->
                                           [by |-> "cleaner", db |-> db_names[i],
                                            tenant |-> i,
                                            state |-> CleanerConnection(how[db_names[i]])]]),
                        !.cleanup = Some(RunDataCleanup(r))]
       IN cleaned(CleanupAllDatabases(db_names, stores, CutoffDate(rn.now), how))
    /\ UNCHANGED <<rq, fl, en, st, pl, tk, cl, vi, wb, ch, hw>>

\* Phase 2 of run(): run_data_processing up to the enrichment loop
RunProcessingStart(reads) ==
    /\ rn.pc = "processing"
    /\ DOMAIN reads = 1..Len(rn.registry)
    /\ rn.db_password = "" => \A i \in DOMAIN reads : reads[i] = "ok"
    /\ LET e == RunDataProcessingEntry(rn.db_password, rn.registry, reads)
       IN rn' = [rn EXCEPT
                   !.pc = IF e.go THEN "tenants" ELSE "summary",
                   !.reads = IF rn.db_password = "" THEN <<>> ELSE reads,
                   !.hospitals = e.hospitals,
                   !.h = 1,
                   !.conns = IF rn.db_password /= ""
                             THEN @ \o Made([i \in 1..Len(reads) |->
                                                [by |-> "candidates",
                                                 db |-> rn.registry[i].dbName, tenant |-> i,
                                                 state |-> CandidateConnection(reads[i])]])
                             ELSE @,
                   !.processing = IF e.go THEN Nothing ELSE Some(ProcessingFailed)]
    /\ UNCHANGED <<rq, fl, en, st, pl, tk, cl, vi, wb, ch, hw>>

\* the record the run keeps of one tenant of the loop
TenantRecord(config, status, ids, b, w) ==
    [config |-> config, status |-> status,
     untouched |-> w.untouched,
     attempted |-> b.attempted,
     enriched |-> [i \in 1..Len(b.enriched_patients) |->
                      b.enriched_patients[i].userPatientId],
     skipped_count |-> b.skipped_count,
     outcomes |-> w.outcomes, ret |-> w.ret,
     committed |-> w.committed, clean |-> w.clean]

\* one iteration of the `for hospital in processed_data.hospitals` loop of
\* enrich_data_with_hiys_batch up to `if enriched_patients:`; conn is the
\* tenant connection opened for the enrichment
RunEnrich(conn) ==
    /\ rn.pc = "tenants"
    /\ rn.h <= Len(rn.hospitals)
    /\ rn.pending = Nothing
    /\ LET hospital == rn.hospitals[rn.h]
           app_id == IF hospital.appId = NONE THEN "" ELSE hospital.appId
           hospital_config == FindConfig(app_id)
           ids == {hospital.patients[i].userPatientId : i \in 1..Len(hospital.patients)}
           nobatch == [enriched_patients |-> <<>>, skipped_count |-> 0, attempted |-> <<>>]
           nowrite == [outcomes |-> <<>>, ret |-> Nothing, committed |-> FALSE,
                       clean |-> TRUE, untouched |-> ids]
           rec(status, b) == TenantRecord(rn.registry[rn.h].appId, status, ids, b, nowrite)
           reader(state) == [by |-> "reader", db |-> rn.registry[rn.h].dbName,
                             tenant |-> rn.h, state |-> state]
           enriched(b) ==
               IF b.enriched_patients = <<>>
               THEN rn' = [rn EXCEPT
                             !.h = @ + 1,
                             !.total_patients_processed = @ + Len(hospital.patients),
                             !.conns = Append(@, reader(ConnectionAfterFinally(TRUE, TRUE))),
                             !.trace = Append(@, <<"enrich", rn.h>>),
                             !.log = Append(@, rec("done", b))]
               ELSE rn' = [rn EXCEPT
                             !.total_patients_processed = @ + Len(hospital.patients),
                             !.conns = Append(@, reader("open")),
                             !.trace = Append(@, <<"enrich", rn.h>>),
                             !.pending = Some(b)]
       IN
       IF hospital_config = Nothing
       THEN /\ conn = "ok"
            /\ rn' = [rn EXCEPT !.h = @ + 1, !.log = Append(@, rec("noconfig", nobatch))]
       ELSE IF conn = "down"
       THEN rn' = [rn EXCEPT !.h = @ + 1, !.log = Append(@, rec("connfail", nobatch))]
       ELSE enriched(ProcessBatch(hospital.patients, app_id, rn.world, rn.now))
    /\ UNCHANGED <<rq, fl, en, st, pl, tk, cl, vi, wb, ch, hw>>

\* the rest of the iteration: save_batch_to_db_optimized on the enriched
\* contacts of the tenant; mode is what the store does during the write
RunWrite(mode, verify) ==
    /\ rn.pc = "tenants"
    /\ rn.pending /= Nothing
    /\ mode \in BatchModes(Len(rn.pending[1].enriched_patients))
    /\ mode.conn = "lost" => verify = "ok"      \* the write raised: no record count
    /\ LET hospital == rn.hospitals[rn.h]
           app_id == hospital.appId
           db_name == FindConfig(app_id)[1].dbName
           ids == {hospital.patients[i].userPatientId : i \in 1..Len(hospital.patients)}
           wrote(b, w) ==
               rn' = [rn EXCEPT
                        !.h = @ + 1,
                        !.pending = Nothing,
                        !.tables[db_name] = w.table,
                        !.nextId[db_name] = w.nextId,
                        !.stats = w.stats,
                        !.conns = Made(
                            [i \in 1..Len(@) |->
                                IF @[i].state = "open" /\ @[i].by = "reader"
                                THEN [@[i] EXCEPT !.state = ConnectionAfterFinally(TRUE, TRUE)]
                                ELSE @[i]]
                            \o <<[by |-> "writer", db |-> db_name, tenant |-> rn.h,
                                  state |-> WriterConnection(mode)],
                                 [by |-> "verify", db |-> db_name, tenant |-> rn.h,
                                  state |-> IF mode.conn = "lost" THEN "none"
                                            ELSE VerifyConnection(verify)]>>),
                        !.trace = Append(@, <<"write", rn.h>>),
                        !.log = Append(@, TenantRecord(rn.registry[rn.h].appId, "done", ids, b,
                                  [outcomes |-> w.outcomes, ret |-> w.ret,
                                   untouched |->
                                       {id \in ids :
                                           MatchingRows(w.table, app_id, id) =
                                           MatchingRows(rn.tables[db_name], app_id, id)},
                                   committed |-> w.committed,
                                   clean |-> mode.conn = "ok" /\ mode.commit = "ok"
                                             /\ mode.rejects = {}]))]
       IN wrote(rn.pending[1],
                SaveBatchToDbOptimized(rn.tables[db_name], rn.nextId[db_name], rn.stats,
                                       rn.now, app_id, rn.pending[1].enriched_patients,
                                       rn.now, rn.seed, mode))
    /\ UNCHANGED <<rq, fl, en, st, pl, tk, cl, vi, wb, ch, hw>>

\* the end of enrich_data_with_hiys_batch and of run_data_processing: the
\* final verification of every hospital, then the result
RunProcessingFinish(total, recent) ==
    /\ rn.pc = "tenants"
    /\ rn.h > Len(rn.hospitals)
    /\ rn' = [rn EXCEPT
                !.pc = "summary",
                !.conns = @ \o Made(FinalVerification(rn.hospitals, total, recent)),
                !.processing = Some(ProcessingResult(rn.total_patients_processed, rn.stats))]
    /\ UNCHANGED <<rq, fl, en, st, pl, tk, cl, vi, wb, ch, hw>>

\* the end of run(): overall_success and the completion notification, whose
\* failure is logged and changes nothing
RunSummary(sent) ==
    /\ rn.pc = "summary"
    /\ rn' = [rn EXCEPT
                !.pc = "done",
                !.overall = Some(OverallSuccess(rn.cleanup[1], rn.processing[1])),
                !.notified = sent]
    /\ UNCHANGED <<rq, fl, en, st, pl, tk, cl, vi, wb, ch, hw>>

RunNext ==
    \/ \E modes \in [DbNameSet -> CleanupModes] : RunCleanup(modes)
    \/ \E reads \in UNION {[1..n -> {"ok", "down", "query", "appid"}] : n \in {0, Len(Registry)}} :
          RunProcessingStart(reads)
    \/ \E conn \in {"ok", "down"} : RunEnrich(conn)
    \/ \E mode \in BatchModes(MaxBatch) \cup BatchModes(1), verify \in VerifyModes :
          RunWrite(mode, verify)
    \/ \E total \in VerifyModes, recent \in VerifyModes : RunProcessingFinish(total, recent)
    \/ \E sent \in BOOLEAN : RunSummary(sent)

SpecRun == RunInit /\ [][RunNext]_vars

\* some tenant store was cleaned by the run
SomeTenantCleaned == \E d \in DOMAIN rn.db_results : d \in DbNameSet /\ rn.db_results[d] = "success"
\* the enrichment committed an insert or an update of some contact
SomeContactWritten ==
    \E t \in 1..Len(rn.log) :
        /\ rn.log[t].committed
        /\ \E i \in 1..Len(rn.log[t].outcomes) : rn.log[t].outcomes[i] \in {"inserted", "updated"}

\* C21: the run ends with a summary and reports failure only when no useful
\* work succeeded: a run in which enrichment wrote contacts, or in which some
\* tenant was cleaned, is not reported as failed.
C21_FailureOnlyWithoutUsefulWork ==
    (rn.pc = "done" /\ (SomeContactWritten \/ SomeTenantCleaned)) => rn.overall = Some(TRUE)

\* what run() does report: with every tenant cleaned, a run that read at
\* least one candidate of a reachable tenant succeeds whatever happened to
\* the single contacts; and the run fails as soon as one tenant's cleanup did
C21_ContactFailureNotFatal ==
    rn.pc = "done" =>
        /\ (rn.cleanup[1].success /\ rn.total_patients_processed > 0) => rn.overall = Some(TRUE)
        /\ (\E d \in DOMAIN rn.db_results : rn.db_results[d] = "failed") => rn.overall = Some(FALSE)

\* a finished run with a rejected contact and every tenant cleaned
C21_Witness ==
    /\ rn.pc = "done"
    /\ rn.cleanup[1].success
    /\ \E t \in 1..Len(rn.log) :
          \E i \in 1..Len(rn.log[t].outcomes) : rn.log[t].outcomes[i] = "failed"
    /\ rn.overall = Some(TRUE)

\* C22: with no store password, or with an empty tenant registry,
\* run_data_processing reports failure, no tenant is enriched and the
\* processing writes no store row: the stores stay as the cleanup left them.
C22_ConfigErrorIsFatal ==
    (rn.pc \in {"summary", "done"} /\ (rn.db_password = "" \/ rn.registry = <<>>)) =>
        /\ rn.processing = Some(ProcessingFailed)
        /\ rn.log = <<>>
        /\ rn.tables = rn.cleaned
        /\ rn.nextId = [d \in DbNameSet |-> 3]

\* a finished run without a password over a registry of two tenants whose
\* stores hold rows
C22_Witness ==
    /\ rn.pc = "done"
    /\ rn.db_password = ""
    /\ rn.registry = Registry
    /\ \E d \in DbNameSet : rn.tables[d] /= {}
    /\ rn.processing = Some(ProcessingFailed)

\* the tenants of the registry whose read failed
UnreadTenants == {t \in 1..Len(rn.reads) : rn.reads[t] /= "ok"}

\* C23: a connection or query failure while reading one tenant's candidates
\* stops that tenant only: it contributes no candidates (if only the lookup
\* of its appId failed, its candidates are read and then passed over),
\* nothing of it is enriched or written and its store stays as it was;
\* every other tenant of the registry is still read and visited by the
\* enrichment, which attempts all its candidates and writes the enriched
\* ones.
C23_ReadFailureStopsOneTenant ==
    (rn.pc \in {"summary", "done"} /\ rn.db_password /= "" /\ rn.registry /= <<>>) =>
        /\ Len(rn.log) = Len(rn.registry)
        /\ \A t \in 1..Len(rn.registry) :
              LET a == rn.registry[t].appId
                  d == rn.registry[t].dbName
              IN IF t \in UnreadTenants
                 THEN /\ rn.reads[t] \in {"down", "query"} => rn.hospitals[t].patients = <<>>
                      /\ rn.log[t].attempted = <<>>
                      /\ rn.log[t].enriched = <<>>
                      /\ rn.log[t].outcomes = <<>>
                      /\ rn.tables[d] = rn.cleaned[d]
                 ELSE /\ [i \in 1..Len(rn.hospitals[t].patients) |->
                             rn.hospitals[t].patients[i].userPatientId] = Candidates[a]
                      /\ rn.log[t].status \in {"done", "connfail"}
                      /\ rn.log[t].status = "done" =>
                            /\ rn.log[t].attempted = Candidates[a]
                            /\ (rn.log[t].clean /\ rn.log[t].enriched /= <<>>) =>
                                  /\ rn.log[t].committed
                                  /\ Len(rn.log[t].outcomes) = Len(rn.log[t].enriched)

\* a finished run in which the first tenant could not be read and a contact
\* of the second was inserted
C23_Witness ==
    /\ rn.pc = "done"
    /\ Len(rn.reads) = 2
    /\ rn.reads[1] /= "ok" /\ rn.reads[2] = "ok"
    /\ rn.log[2].committed
    /\ \E i \in 1..Len(rn.log[2].outcomes) : rn.log[2].outcomes[i] = "inserted"

\* s is t with some elements left out, the others in the order of t
IsSubsequence(s, t) ==
    \E f \in [1..Len(s) -> 1..Len(t)] :
        /\ \A i \in 1..Len(s) : t[f[i]] = s[i]
        /\ \A i, j \in 1..Len(s) : i < j => f[i] < f[j]

\* the position of an event in the trace of the run, 0 if it is not there
TracePos(kind, t) ==
    IF \E k \in 1..Len(rn.trace) : rn.trace[k] = <<kind, t>>
    THEN CHOOSE k \in 1..Len(rn.trace) : rn.trace[k] = <<kind, t>>
    ELSE 0

\* the row id under which the store holds a contact of a tenant
RowIdOf(table, app_id, id) ==
    (CHOOSE row \in MatchingRows(table, app_id, id) : TRUE).id

\* C24: within one tenant the contacts are enriched in the order they were
\* read and the contacts passed to the writer are an order-preserving
\* subsequence of the candidates, which the writer handles in that order
\* (of two contacts it inserts, the earlier gets the smaller row id); a
\* tenant's write comes after its own enrichment and before the enrichment
\* of any later tenant.
C24_OrderWithinAndAcrossTenants ==
    /\ \A t \in 1..Len(rn.log) :
          LET a == rn.registry[t].appId
              d == rn.registry[t].dbName
              rec == rn.log[t]
          IN /\ IsSubsequence(rec.enriched, rec.attempted)
             /\ rec.status = "done" => rec.attempted = [i \in 1..Len(rn.hospitals[t].patients) |->
                                                           rn.hospitals[t].patients[i].userPatientId]
             /\ rec.committed =>
                   \A i, j \in 1..Len(rec.outcomes) :
                       (i < j /\ rec.outcomes[i] = "inserted" /\ rec.outcomes[j] = "inserted")
                       => RowIdOf(rn.tables[d], a, rec.enriched[i])
                            < RowIdOf(rn.tables[d], a, rec.enriched[j])
    /\ \A t \in 1..Len(rn.registry) :
          /\ TracePos("write", t) /= 0 =>
                /\ TracePos("enrich", t) /= 0
                /\ TracePos("enrich", t) < TracePos("write", t)
          /\ \A u \in 1..Len(rn.registry) :
                (t < u /\ TracePos("enrich", u) /= 0) =>
                    /\ TracePos("enrich", t) < TracePos("enrich", u)
                    /\ TracePos("write", t) < TracePos("enrich", u)
                    /\ (rn.log[t].enriched /= <<>>) => TracePos("write", t) /= 0
    /\ rn.pending /= Nothing =>
          IsSubsequence([i \in 1..Len(rn.pending[1].enriched_patients) |->
                            rn.pending[1].enriched_patients[i].userPatientId],
                        Candidates[rn.hospitals[rn.h].appId])

\* both tenants were enriched and written, the first with two contacts
\* inserted in one batch
C24_Witness ==
    /\ rn.pc = "tenants"
    /\ rn.trace = <<<<"enrich", 1>>, <<"write", 1>>, <<"enrich", 2>>, <<"write", 2>>>>
    /\ rn.log[1].committed
    /\ rn.log[1].outcomes = <<"inserted", "inserted">>
    /\ rn.log[1].enriched = Candidates["14"]

(***************************************************************************)
(* One call of save_batch_to_db_optimized, statement by statement: the     *)
(* connection, the loop over the contacts, the commit, the except block    *)
(* with its rollback, and the return.  `table` is the committed table,     *)
(* `view` what the open connection sees.                                   *)
(***************************************************************************)
MaxBatchLen == 3

\* an enriched contact whose channel, language, phone and identity differ
\* from what any stored row holds
BatchPatient(id, txs, patientFound, transactionsFound) ==
    [userPatientId |-> id, chatType |-> "web", language |-> "EN",
     phoneNumber |-> "90555111",
     patientDetails |-> Some(PatientDetail("2002")),
     transactions |-> txs,
     transactionCount |-> Len(txs),
     patientFound |-> patientFound,
     transactionsFound |-> transactionsFound,
     ilkMesajTarihi |-> Some(Now0 - 3 * SecondsPerDay)]

\* a visit older than the writer's 90 days
VisitOld == Tx(DateStr("T", Now0 - 120 * SecondsPerDay), "DrO")

\* two visits of one day, the earlier written with 'T', the later with a
\* space between date and time
VisitMorning == Tx(DateStr("T", Now0 - 2 * SecondsPerDay + 9 * 3600), "DrM")
VisitEvening == Tx(DateStr("sp", Now0 - 2 * SecondsPerDay + 15 * 3600), "DrE")

BatchPatients ==
    {BatchPatient(1, <<VisitA, VisitB>>, TRUE, TRUE),
     BatchPatient(4, <<VisitMorning, VisitEvening>>, TRUE, TRUE),
     BatchPatient(1, <<VisitA, VisitB>>, FALSE, TRUE),
     BatchPatient(2, <<VisitC>>, TRUE, TRUE),
     BatchPatient(2, <<VisitC>>, TRUE, FALSE),
     BatchPatient(3, <<VisitOld>>, TRUE, TRUE)}

\* batches come from a SELECT DISTINCT on the contact id
Batches ==
    {b \in SeqsUpTo(BatchPatients, MaxBatchLen) :
        \A i, j \in 1..Len(b) : i /= j => b[i].userPatientId /= b[j].userPatientId}

\* the committed table when the call starts: empty; a row of contact 1; rows
\* of contacts 1 and 2 and a row of contact 1 of the other tenant
BatchTables ==
    {{},
     {StoredRow(1, "14", 1, <<EntryAt>>)},
     {StoredRow(1, "14", 1, <<EntryAt>>), StoredRow(2, "14", 2, <<EntryNew, EntryAt>>),
      StoredRow(3, "15", 1, <<EntryNew>>)}}

BatchInit ==
    /\ \E t \in BatchTables, b \in Batches :
          \E mode \in BatchModes(Len(b)) :
             wb = [pc |-> "connect",
                   now |-> Now0, seed |-> 1, app_id |-> "14",
                   patients |-> b, mode |-> mode,
                   before |-> t, table |-> t, view |-> t, prev |-> t,
                   nextId |-> 4,
                   stats |-> StatsReset, counts |-> Counts0,
                   i |-> 1, outcomes |-> <<>>,
                   commits |-> 0, rollbacks |-> 0, handled_at_commit |-> 0,
                   ret |-> Nothing, raised |-> FALSE, unread |-> FALSE]
    /\ rq = Parked /\ fl = Parked /\ en = Parked /\ st = Parked
    /\ pl = Parked /\ tk = Parked /\ cl = Parked /\ vi = Parked
    /\ rn = Parked /\ ch = Parked /\ hw = Parked

\* lines 603-606: _get_db_connection; a refused connection raises into the
\* except block with connection None
ConnectStep(s) ==
    IF s.mode.conn = "refused"
    THEN [s EXCEPT !.pc = "return"]
    ELSE [s EXCEPT !.pc = "loop"]

\* variant: a rejected contact ends the loop and the batch is rolled back
ContactStepAbortOnReject(s) ==
    LET rejected == \/ s.i \in s.mode.rejects
                    \/ s.mode.conn = "lost" /\ s.i > s.mode.at
                    \/ s.unread
        r == SavePatientDataToDb(s.view, s.nextId, s.now, s.app_id, s.patients[s.i],
                                 s.now, s.seed, rejected)
        kind == IF r.result THEN r.action ELSE "failed"
    IN [s EXCEPT
          !.pc = IF kind = "failed" THEN "rollback" ELSE "loop",
          !.prev = s.view,
          !.view = r.table,
          !.nextId = r.nextId,
          !.i = @ + 1,
          !.counts = CASE kind = "inserted" -> [@ EXCEPT !.new = @ + 1]
                       [] kind = "updated" -> [@ EXCEPT !.updated = @ + 1]
                       [] kind = "skipped" -> [@ EXCEPT !.skipped = @ + 1]
                       [] OTHER -> [@ EXCEPT !.failed = @ + 1],
          !.stats = CASE kind = "inserted" -> AddNew(@, 1)
                      [] kind = "updated" -> AddUpdated(@, 1)
                      [] kind = "skipped" -> AddSkipped(@, 1)
                      [] OTHER -> AddFailed(@, 1),
          !.outcomes = Append(@, kind),
          !.unread = @ \/ r.unread]

\* variant: every handled contact is committed at once
ContactStepCommitting(s) ==
    LET rejected == \/ s.i \in s.mode.rejects
                    \/ s.mode.conn = "lost" /\ s.i > s.mode.at
                    \/ s.unread
        r == SavePatientDataToDb(s.view, s.nextId, s.now, s.app_id, s.patients[s.i],
                                 s.now, s.seed, rejected)
        kind == IF r.result THEN r.action ELSE "failed"
    IN [s EXCEPT
          !.prev = s.view,
          !.view = r.table,
          !.table = IF s.mode.conn = "ok" THEN r.table ELSE @,
          !.commits = IF s.mode.conn = "ok" THEN @ + 1 ELSE @,
          !.handled_at_commit = IF s.mode.conn = "ok" THEN s.i ELSE @,
          !.nextId = r.nextId,
          !.i = @ + 1,
          !.counts = CASE kind = "inserted" -> [@ EXCEPT !.new = @ + 1]
                       [] kind = "updated" -> [@ EXCEPT !.updated = @ + 1]
                       [] kind = "skipped" -> [@ EXCEPT !.skipped = @ + 1]
                       [] OTHER -> [@ EXCEPT !.failed = @ + 1],
          !.stats = CASE kind = "inserted" -> AddNew(@, 1)
                      [] kind = "updated" -> AddUpdated(@, 1)
                      [] kind = "skipped" -> AddSkipped(@, 1)
                      [] OTHER -> AddFailed(@, 1),
          !.outcomes = Append(@, kind),
          !.unread = @ \/ r.unread]

\* lines 611-645: one pass of the loop body on contact s.i; the inner
\* except counts the contact as failed and the loop goes on
ContactStep(s) ==
    LET rejected == \/ s.i \in s.mode.rejects
                    \/ s.mode.conn = "lost" /\ s.i > s.mode.at
                    \/ s.unread
        r == SavePatientDataToDb(s.view, s.nextId, s.now, s.app_id, s.patients[s.i],
                                 s.now, s.seed, rejected)
        kind == IF r.result THEN r.action ELSE "failed"
    IN [s EXCEPT
          !.prev = s.view,
          !.view = r.table,
          !.nextId = r.nextId,
          !.i = @ + 1,
          !.counts = CASE kind = "inserted" -> [@ EXCEPT !.new = @ + 1]
                       [] kind = "updated" -> [@ EXCEPT !.updated = @ + 1]
                       [] kind = "skipped" -> [@ EXCEPT !.skipped = @ + 1]
                       [] OTHER -> [@ EXCEPT !.failed = @ + 1],
          !.stats = CASE kind = "inserted" -> AddNew(@, 1)
                      [] kind = "updated" -> AddUpdated(@, 1)
                      [] kind = "skipped" -> AddSkipped(@, 1)
                      [] OTHER -> AddFailed(@, 1),
          !.outcomes = Append(@, kind),
          !.unread = @ \/ r.unread]

\* line 649: connection.commit() after the loop; if it raises, the except
\* block is entered
CommitStep(s) ==
    IF s.mode.conn = "ok" /\ s.mode.commit = "ok" /\ ~s.unread
    THEN [s EXCEPT !.pc = "return", !.table = s.view, !.commits = @ + 1,
                   !.handled_at_commit = s.i - 1]
    ELSE [s EXCEPT !.pc = "rollback"]

\* lines 652-656: the except block with an open connection; the rollback of
\* a lost connection raises out of the call
RollbackStep(s) ==
    IF s.mode.conn = "lost"
    THEN [s EXCEPT !.pc = "done", !.view = s.table, !.raised = TRUE]
    ELSE [s EXCEPT !.pc = "return", !.view = s.table, !.rollbacks = @ + 1]

\* lines 657-662: the connection is closed and the four counts are returned
ReturnStep(s) ==
    [s EXCEPT !.pc = "done", !.view = s.table, !.ret = Some(s.counts)]

BatchConnect ==
    /\ wb.pc = "connect"
    /\ wb' = ConnectStep(wb)
    /\ UNCHANGED <<rq, fl, en, st, pl, tk, cl, vi, rn, ch, hw>>

BatchContact ==
    /\ wb.pc = "loop"
    /\ wb.i <= Len(wb.patients)
    /\ wb' = ContactStep(wb)
    /\ UNCHANGED <<rq, fl, en, st, pl, tk, cl, vi, rn, ch, hw>>

BatchCommit ==
    /\ wb.pc = "loop"
    /\ wb.i > Len(wb.patients)
    /\ wb' = CommitStep(wb)
    /\ UNCHANGED <<rq, fl, en, st, pl, tk, cl, vi, rn, ch, hw>>

BatchRollback ==
    /\ wb.pc = "rollback"
    /\ wb' = RollbackStep(wb)
    /\ UNCHANGED <<rq, fl, en, st, pl, tk, cl, vi, rn, ch, hw>>

BatchReturn ==
    /\ wb.pc = "return"
    /\ wb' = ReturnStep(wb)
    /\ UNCHANGED <<rq, fl, en, st, pl, tk, cl, vi, rn, ch, hw>>

BatchNext ==
    \/ BatchConnect
    \/ BatchContact
    \/ BatchCommit
    \/ BatchRollback
    \/ BatchReturn

SpecBatch == BatchInit /\ [][BatchNext]_vars

\* the call as a whole, computed in one go
BatchWhole ==
    SaveBatchToDbOptimized(wb.before, 4, StatsReset, wb.now, wb.app_id, wb.patients,
                           wb.now, wb.seed, wb.mode)

\* the call ended on its normal path: connected, no statement lost, commit
\* accepted
NormalCompletion == wb.pc = "done" /\ wb.mode.conn = "ok" /\ wb.mode.commit = "ok"

\* C25: a call that completes normally has committed exactly once, after
\* the last contact of the batch was handled; while contacts are still
\* being handled nothing has been committed, and a call that ends through
\* the except block has committed nothing.  The steps agree with the call
\* computed as a whole.
C25_CommitOnceAfterLastContact ==
    /\ wb.pc \in {"connect", "loop", "rollback"} => wb.commits = 0 /\ wb.table = wb.before
    /\ NormalCompletion =>
          /\ wb.commits = 1 /\ wb.rollbacks = 0
          /\ wb.handled_at_commit = Len(wb.patients)
          /\ Len(wb.outcomes) = Len(wb.patients)
    /\ (wb.pc = "done" /\ ~NormalCompletion) => wb.commits = 0 /\ wb.table = wb.before
    /\ wb.rollbacks > 0 => wb.commits = 0
    /\ wb.pc = "done" =>
          /\ wb.table = BatchWhole.table
          /\ wb.ret = BatchWhole.ret
          /\ wb.stats = BatchWhole.stats
          /\ wb.outcomes = BatchWhole.outcomes
          /\ (wb.commits = 1) = BatchWhole.committed

\* a batch of three contacts written and committed in one commit
C25_Witness ==
    /\ NormalCompletion
    /\ Len(wb.patients) = MaxBatchLen
    /\ wb.commits = 1
    /\ wb.table /= wb.before

\* the writer issues a statement for contact i of the batch
IssuesStatement(i) ==
    /\ ~QualitySkip(wb.patients[i])
    /\ RecentTransactions(wb.patients[i], wb.now) /= <<>>

\* the rows a table holds for contact i of the batch
RowsOfContact(table, i) == MatchingRows(table, wb.app_id, wb.patients[i].userPatientId)

\* C26: a contact whose statement the store rejects is counted as failed,
\* that contact only: the loop handles every later contact, the count of
\* failed contacts is the number of rejected statements, the rows of the
\* rejected contact stay as they were, and the inserts and updates of the
\* other contacts are committed.
C26_RejectedContactOnly ==
    (wb.pc = "done" /\ wb.mode.conn = "ok") =>
        /\ Len(wb.outcomes) = Len(wb.patients)
        /\ \A i \in 1..Len(wb.patients) :
              /\ (i \in wb.mode.rejects /\ IssuesStatement(i)) <=> wb.outcomes[i] = "failed"
              /\ wb.outcomes[i] = "failed" => RowsOfContact(wb.table, i) = RowsOfContact(wb.before, i)
              /\ (wb.mode.commit = "ok" /\ wb.outcomes[i] \in {"inserted", "updated"}) =>
                    /\ Cardinality(RowsOfContact(wb.table, i)) = 1
                    /\ \A r \in RowsOfContact(wb.table, i) :
                          /\ r.processTimestamp = wb.now
                          /\ r.ilkMesajTarihi = wb.patients[i].ilkMesajTarihi
                    /\ RowsOfContact(wb.table, i) /= RowsOfContact(wb.before, i)
        /\ wb.ret = Some(wb.counts)
        /\ wb.counts.failed = Cardinality({i \in wb.mode.rejects : IssuesStatement(i)})

\* the first contact of a batch was rejected, the second inserted and
\* committed
C26_Witness ==
    /\ wb.pc = "done"
    /\ wb.commits = 1
    /\ Len(wb.outcomes) >= 2
    /\ wb.outcomes[1] = "failed"
    /\ wb.outcomes[2] = "inserted"
    /\ RowsOfContact(wb.table, 2) /= {}

\* one of the two lookup flags of contact i of the batch is false
LookupMissed(i) == ~wb.patients[i].patientFound \/ ~wb.patients[i].transactionsFound

\* C27: a contact with patientFound = false or transactionsFound = false is
\* skipped, whatever the store would have answered, and the pass of the
\* loop that handles it leaves the connection's view of the table as it
\* was; after the call the contact's rows are the rows it had before.
C27_LookupMissIsSkipped ==
    /\ (wb.pc = "loop" /\ wb.outcomes /= <<>>) =>
          LET k == Len(wb.outcomes) IN
          LookupMissed(k) => wb.outcomes[k] = "skipped" /\ wb.view = wb.prev
    /\ wb.pc = "done" =>
          \A i \in 1..Len(wb.outcomes) :
              LookupMissed(i) =>
                  /\ wb.outcomes[i] = "skipped"
                  /\ RowsOfContact(wb.table, i) = RowsOfContact(wb.before, i)

\* the contact just handled has a row in the store and patientFound =
\* false: it was skipped
C27_Witness ==
    /\ wb.pc = "loop"
    /\ wb.outcomes /= <<>>
    /\ ~wb.patients[Len(wb.outcomes)].patientFound
    /\ RowsOfContact(wb.view, Len(wb.outcomes)) /= {}
    /\ wb.outcomes[Len(wb.outcomes)] = "skipped"

\* the columns an UPDATE of the writer must leave as they are
SameFixedColumns(old, new) ==
    /\ new.id = old.id
    /\ new.appId = old.appId
    /\ new.userPatientId = old.userPatientId
    /\ new.chatType = old.chatType
    /\ new.language = old.language
    /\ new.phoneNumber = old.phoneNumber
    /\ new.hiysUpn = old.hiysUpn
    /\ new.hiysHastaBulundu = old.hiysHastaBulundu
    /\ new.hiysIslemBulundu = old.hiysIslemBulundu

\* the columns a write of contact p at time dt sets
HasWrittenColumns(row, p, dt) ==
    LET recent == RecentTransactions(p, dt) IN
    /\ row.processTimestamp = dt
    /\ row.toplamIslemSayisi = Len(recent)
    /\ row.sonIslemTarihi = ParseIsoDate(LatestTransaction(recent).TransactionDate)
    /\ row.sonDoktorAdi = Some(LatestTransaction(recent).DrName)
    /\ row.ilkMesajTarihi = p.ilkMesajTarihi
    /\ row.transactionDetails /= Nothing
    /\ Len(row.transactionDetails[1]) = Len(recent)

\* C28: when a row exists for (appId, userPatientId) the writer reports
\* 'updated' and the row keeps its id, key, channel type, language, phone
\* and identity columns while the run timestamp, the visit count, the
\* latest-visit summary, the visit map and the first-contact timestamp are
\* set from the contact; when no row exists it reports 'inserted' and the
\* table gains exactly one row, built from the contact.  No other row
\* changes.
C28_UpdateKeepsFixedColumns ==
    (wb.pc = "loop" /\ wb.outcomes /= <<>>) =>
        LET k == Len(wb.outcomes)
            p == wb.patients[k]
            old == RowsOfContact(wb.prev, k)
            new == RowsOfContact(wb.view, k)
            accepted == IssuesStatement(k) /\ k \notin wb.mode.rejects
                        /\ ~(wb.mode.conn = "lost" /\ k > wb.mode.at)
        IN /\ wb.view \ new = wb.prev \ old
           /\ accepted => wb.outcomes[k] = (IF old /= {} THEN "updated" ELSE "inserted")
           /\ wb.outcomes[k] = "updated" =>
                 /\ accepted /\ Cardinality(old) = 1 /\ Cardinality(new) = 1
                 /\ \A o \in old, n \in new :
                       SameFixedColumns(o, n) /\ HasWrittenColumns(n, p, wb.now)
           /\ wb.outcomes[k] = "inserted" =>
                 /\ accepted /\ old = {} /\ Cardinality(new) = 1
                 /\ \A n \in new :
                       /\ n.chatType = p.chatType /\ n.language = p.language
                       /\ n.phoneNumber = p.phoneNumber
                       /\ n.hiysUpn = p.patientDetails[1].UPN
                       /\ \A r \in wb.prev : r.id /= n.id
                       /\ HasWrittenColumns(n, p, wb.now)

\* a row whose phone, language and identity differ from the contact's was
\* just updated
C28_Witness ==
    /\ wb.pc = "loop"
    /\ wb.outcomes /= <<>>
    /\ wb.outcomes[Len(wb.outcomes)] = "updated"
    /\ \E n \in RowsOfContact(wb.view, Len(wb.outcomes)) :
          /\ n.phoneNumber /= wb.patients[Len(wb.outcomes)].phoneNumber
          /\ n.hiysUpn /= wb.patients[Len(wb.outcomes)].patientDetails[1].UPN
          /\ n.processTimestamp = wb.now

\* the (appId, userPatientId) keys a table holds
KeysOf(table) == {<<r.appId, r.userPatientId>> : r \in table}

\* C29: a call of the batch writer deletes no row: at every step of the
\* call, and after it, every key and every row id the committed table held
\* when the call started is still in the committed table and in the
\* connection's view of it.
C29_WriterKeepsKeys ==
    /\ KeysOf(wb.before) \subseteq KeysOf(wb.table)
    /\ KeysOf(wb.before) \subseteq KeysOf(wb.view)
    /\ {r.id : r \in wb.before} \subseteq {r.id : r \in wb.table}
    /\ {r.id : r \in wb.before} \subseteq {r.id : r \in wb.view}
    /\ Cardinality(wb.table) >= Cardinality(wb.before)

\* a committed call that skipped a contact whose row the store holds and
\* inserted another contact: the keys grew, the skipped contact's row stayed
C29_Witness ==
    /\ wb.pc = "done"
    /\ wb.commits = 1
    /\ \E i, j \in 1..Len(wb.outcomes) :
          /\ wb.outcomes[i] = "skipped" /\ LookupMissed(i)
          /\ RowsOfContact(wb.before, i) /= {}
          /\ RowsOfContact(wb.table, i) = RowsOfContact(wb.before, i)
          /\ wb.outcomes[j] = "inserted"
    /\ KeysOf(wb.table) /= KeysOf(wb.before)

\* C30: of the operations on a store and its tracker (the batch writer, the
\* cleaner, the non-enriched save, the reset, the passing of time) only the
\* batch writer and the reset change a counter, and the reset sets all of
\* them to zero: as long as no batch was written since the construction or
\* the last reset, the snapshot is all zeros.
C30_OnlyWriterCounts ==
    /\ [][(st.run_stats /= st'.run_stats) =>
             (st'.last.op = "write" \/ st'.run_stats = StatsReset)]_vars
    /\ [](~st.written =>
             GetStats(st.run_stats) =
                 [new_records |-> 0, updated_records |-> 0, skipped_records |-> 0,
                  failed_records |-> 0, total_processed |-> 0])

\* after a write that counted a contact and a reset, the non-enriched save
\* has run on a store that holds rows: the counters are still zero
C30_Witness ==
    /\ st.last.op = "final"
    /\ ~st.written
    /\ st.table /= {}
    /\ st.run_stats = StatsReset

(***************************************************************************)
(* One tenant's candidates going through process_batch, candidate by       *)
(* candidate.  In the pipeline enrich_data_with_hiys_batch cuts the        *)
(* candidates into slices of its batch_size and hands every slice, with    *)
(* the same batch_size, to process_batch; a direct call hands the whole    *)
(* list.  The trace records every enrich_patient_data call and every       *)
(* time.sleep of process_batch.                                            *)
(***************************************************************************)
HIYS_BATCH_SIZE == 10
MaxCandidates == 4
\* the values of DataProcessor.batch_size explored (the default is
\* DEFAULT_BATCH_SIZE)
ChunkSizes == {1, 2}
\* request_delay arguments of a direct construction (0: not given)
ChunkDelayArgs == {0, 2}

\* patients[i:i + size] for a 0-based i
Slice(patients, i, size) ==
    SubSeq(patients, i + 1, IF i + size < Len(patients) THEN i + size ELSE Len(patients))

\* range(0, total, size)
RangeStarts(total, size) == {i \in 0..(total - 1) : i % size = 0}

\* enrich_data_with_hiys_batch: the slices handed to process_batch, in order
OuterSlices(patients, size) ==
    [k \in 1..Cardinality(RangeStarts(Len(patients), size)) |->
        Slice(patients, (k - 1) * size, size)]

\* process_batch: `if batch_size is None: batch_size = HIYS_BATCH_SIZE`
ProcessBatchSize(batch_size) ==
    IF batch_size = Nothing THEN HIYS_BATCH_SIZE ELSE batch_size[1]

\* how the external service answers for a candidate
ChunkExt(outcome) == IF outcome = "nomatch" THEN ExtNoMatch ELSE ExtGood

\* variant: an exception raised by enrich_patient_data leaves process_batch
AttemptStepAborting(call, patient, app_id, outcome, now) ==
    IF outcome = "raise"
    THEN [call EXCEPT !.raised = TRUE]
    ELSE LET e == EnrichPatientData(patient, app_id, ChunkExt(outcome),
                                    DEFAULT_HIYS_MAX_RETRIES, now)
         IN IF e = Nothing
            THEN [call EXCEPT !.skipped_count = @ + 1,
                              !.attempted = Append(@, patient.userPatientId), !.j = @ + 1]
            ELSE [call EXCEPT !.enriched_patients = Append(@, e[1]),
                              !.attempted = Append(@, patient.userPatientId), !.j = @ + 1]

\* process_batch: the try/except around one candidate.  A result is
\* appended, None is counted as skipped, an exception is counted as skipped
AttemptStep(call, patient, app_id, outcome, now) ==
    IF outcome = "raise"
    THEN [call EXCEPT !.skipped_count = @ + 1,
                      !.attempted = Append(@, patient.userPatientId), !.j = @ + 1]
    ELSE LET e == EnrichPatientData(patient, app_id, ChunkExt(outcome),
                                    DEFAULT_HIYS_MAX_RETRIES, now)
         IN IF e = Nothing
            THEN [call EXCEPT !.skipped_count = @ + 1,
                              !.attempted = Append(@, patient.userPatientId), !.j = @ + 1]
            ELSE [call EXCEPT !.enriched_patients = Append(@, e[1]),
                              !.attempted = Append(@, patient.userPatientId), !.j = @ + 1]

\* process_batch: `if i + batch_size < total_patients: time.sleep(request_delay * 5)`
InterBatchSleep(i, batch_size, total_patients, request_delay) ==
    IF i + batch_size < total_patients THEN Some(request_delay * 5) ELSE Nothing

\* the locals of a process_batch call at its start
NewCall(input, batch_size) ==
    [input |-> input, batch_size |-> ProcessBatchSize(batch_size),
     i |-> 0, j |-> 1, enriched_patients |-> <<>>, skipped_count |-> 0,
     attempted |-> <<>>, raised |-> FALSE]

NoCall == NewCall(<<>>, Nothing)

ChunkInit ==
    /\ \E n \in 0..MaxCandidates :
       \E outcome \in [1..n -> {"good", "nomatch", "raise"}] :
       \E size \in ChunkSizes, mode \in {"pipeline", "direct"} :
       \E arg \in (IF mode = "pipeline" THEN {Some(size)}
                   ELSE {Nothing} \cup {Some(b) : b \in ChunkSizes}) :
       \E delay \in (IF mode = "pipeline" THEN {0} ELSE ChunkDelayArgs) :
          ch = [pc |-> "slice", mode |-> mode, app_id |-> "14", now |-> Now0,
                outcome |-> outcome,
                slices |-> IF mode = "pipeline"
                           THEN OuterSlices([k \in 1..n |-> PatientData(k)], size)
                           ELSE << [k \in 1..n |-> PatientData(k)] >>,
                batch_size |-> arg,
                request_delay |-> InitRequestDelay(delay),
                k |-> 1, call |-> NoCall, calls |-> <<>>,
                enriched_patients |-> <<>>, total_patients_processed |-> 0,
                trace |-> <<>>, raised |-> FALSE]
    /\ rq = Parked /\ fl = Parked /\ en = Parked /\ st = Parked
    /\ pl = Parked /\ tk = Parked /\ cl = Parked /\ vi = Parked
    /\ wb = Parked /\ rn = Parked /\ hw = Parked

\* the next slice is handed to process_batch, or the slices are used up
ChunkSlice ==
    /\ ch.pc = "slice"
    /\ ch' = IF ch.k > Len(ch.slices)
             THEN [ch EXCEPT !.pc = "done"]
             ELSE [ch EXCEPT !.pc = "batch",
                             !.call = NewCall(ch.slices[ch.k], ch.batch_size)]
    /\ UNCHANGED <<rq, fl, en, st, pl, tk, cl, vi, wb, rn, hw>>

\* the head of process_batch's outer for loop: the next chunk, or the return
ChunkBatch ==
    /\ ch.pc = "batch"
    /\ ch' = IF ch.call.i < Len(ch.call.input)
             THEN [ch EXCEPT !.pc = "enrich", !.call.j = 1]
             ELSE [ch EXCEPT !.pc = "slice",
                             !.k = @ + 1,
                             !.calls = Append(@, ch.call),
                             !.enriched_patients = @ \o ch.call.enriched_patients,
                             !.total_patients_processed = @ + Len(ch.call.input)]
    /\ UNCHANGED <<rq, fl, en, st, pl, tk, cl, vi, wb, rn, hw>>

\* one candidate of the chunk is enriched
ChunkEnrich ==
    /\ ch.pc = "enrich"
    /\ LET batch == Slice(ch.call.input, ch.call.i, ch.call.batch_size)
           after(c, patient) ==
               ch' = IF c.raised
                     THEN [ch EXCEPT !.pc = "done", !.call = c, !.raised = TRUE]
                     ELSE [ch EXCEPT !.call = c,
                                     !.trace = Append(@, [kind |-> "enrich",
                                                          id |-> patient.userPatientId,
                                                          slice |-> ch.k,
                                                          i |-> ch.call.i])]
       IN IF ch.call.j > Len(batch)
          THEN ch' = [ch EXCEPT !.pc = "pause"]
          ELSE after(AttemptStep(ch.call, batch[ch.call.j], ch.app_id,
                                 ch.outcome[batch[ch.call.j].userPatientId], ch.now),
                     batch[ch.call.j])
    /\ UNCHANGED <<rq, fl, en, st, pl, tk, cl, vi, wb, rn, hw>>

\* the end of the chunk: the sleep before the next chunk, if there is one
ChunkPause ==
    /\ ch.pc = "pause"
    /\ LET slept(d) ==
               ch' = [ch EXCEPT !.pc = "batch",
                                !.call.i = @ + ch.call.batch_size,
                                !.trace = IF d = Nothing THEN @
                                          ELSE Append(@, [kind |-> "sleep",
                                                          seconds |-> d[1]])]
       IN slept(InterBatchSleep(ch.call.i, ch.call.batch_size,
                                Len(ch.call.input), ch.request_delay))
    /\ UNCHANGED <<rq, fl, en, st, pl, tk, cl, vi, wb, rn, hw>>

ChunkNext == ChunkSlice \/ ChunkBatch \/ ChunkEnrich \/ ChunkPause

SpecChunk == ChunkInit /\ [][ChunkNext]_vars

\* the userPatientIds of a list of contacts, in order
PatientIdsOf(patients) == [k \in 1..Len(patients) |-> patients[k].userPatientId]

\* C31: no exception of a candidate leaves process_batch, and every call
\* that has returned attempted each of its input candidates exactly once,
\* in input order, with returned contacts plus skipped count equal to the
\* number of input candidates; a candidate whose enrichment raised is among
\* the skipped and the candidates after it were still attempted.
C31_CandidateFailureIsCounted ==
    /\ ~ch.raised
    /\ \A c \in 1..Len(ch.calls) :
          /\ ch.calls[c].attempted = PatientIdsOf(ch.calls[c].input)
          /\ Len(ch.calls[c].enriched_patients) + ch.calls[c].skipped_count
                = Len(ch.calls[c].input)
          /\ \A e \in 1..Len(ch.calls[c].enriched_patients) :
                ch.outcome[ch.calls[c].enriched_patients[e].userPatientId] = "good"

\* a direct call over four candidates in chunks of two has returned: the
\* first candidate raised, the rest of its chunk and the next chunk were
\* enriched
C31_Witness ==
    /\ ch.pc = "done"
    /\ ch.mode = "direct"
    /\ Len(ch.calls) = 1
    /\ Len(ch.calls[1].input) = 4
    /\ ch.calls[1].batch_size = 2
    /\ ch.outcome[1] = "raise"
    /\ ch.calls[1].skipped_count = 1
    /\ PatientIdsOf(ch.calls[1].enriched_patients) = <<2, 3, 4>>

\* two events of the trace are candidates of different chunks
OtherChunk(a, b) ==
    /\ a.kind = "enrich" /\ b.kind = "enrich"
    /\ (a.slice /= b.slice \/ a.i /= b.i)

\* no two chunks' calls are back to back in the trace, and a finished
\* trace does not end with a sleep
ChunksThrottled(trace, finished) ==
    /\ \A p \in 1..(Len(trace) - 1) : ~OtherChunk(trace[p], trace[p + 1])
    /\ (finished /\ trace /= <<>>) => trace[Len(trace)].kind /= "sleep"

\* C32: in the pipeline a sleep lies between the external calls of every
\* two consecutive chunks of a tenant, and none after the last chunk.
C32_PipelineChunksThrottled ==
    ch.mode = "pipeline" => ChunksThrottled(ch.trace, ch.pc = "done")

\* a direct call of process_batch on the whole list does sleep between its
\* chunks and not after the last, for request_delay * 5 seconds
C32_DirectCallSleepsBetweenChunks ==
    ch.mode = "direct" =>
        /\ ChunksThrottled(ch.trace, ch.pc = "done")
        /\ \A p \in 1..Len(ch.trace) :
              ch.trace[p].kind = "sleep" => ch.trace[p].seconds = ch.request_delay * 5

\* the instants of the visits of a list
TimesOf(txs) == {ParseIsoDate(txs[k].TransactionDate)[1] : k \in 1..Len(txs)}

\* the row's summary is that of a visit of txs with the greatest instant
SummaryOfLatest(r, txs) ==
    \E k \in 1..Len(txs) :
        /\ \A t \in TimesOf(txs) : t <= ParseIsoDate(txs[k].TransactionDate)[1]
        /\ r.sonIslemTarihi = ParseIsoDate(txs[k].TransactionDate)
        /\ r.sonDoktorAdi = Some(txs[k].DrName)

\* the kept visits of a list are written in one shape
OneShape(txs) == \A j, k \in 1..Len(txs) : txs[j].TransactionDate.fmt = txs[k].TransactionDate.fmt

\* C33: the latest-visit summary of a row the writer inserted or updated
\* and committed is that of the visit with the greatest timestamp among
\* the contact's kept visits.
C33_SummaryFromLatestVisit ==
    (wb.pc = "done" /\ wb.commits = 1) =>
        \A i \in 1..Len(wb.outcomes) :
            wb.outcomes[i] \in {"inserted", "updated"} =>
                \A r \in RowsOfContact(wb.table, i) :
                    SummaryOfLatest(r, RecentTransactions(wb.patients[i], wb.now))

\* when the kept visits of the contact are written in one shape the
\* summary is that of the visit with the greatest timestamp
C33_OneShapeSummaryFromLatestVisit ==
    (wb.pc = "done" /\ wb.commits = 1) =>
        \A i \in 1..Len(wb.outcomes) :
            (/\ wb.outcomes[i] \in {"inserted", "updated"}
             /\ OneShape(RecentTransactions(wb.patients[i], wb.now))) =>
                \A r \in RowsOfContact(wb.table, i) :
                    SummaryOfLatest(r, RecentTransactions(wb.patients[i], wb.now))

\* the tenant-store connections that are open
OpenConnections == {i \in 1..Len(rn.conns) : rn.conns[i].state = "open"}

\* C34: the only tenant-store connection open between two steps of a run
\* is the reader connection of the tenant whose phase is under way; every
\* connection of the writer, the cleaner, the candidate reading and the
\* record count is closed when its call has returned or raised, and no
\* connection of a tenant is open once the run is at the next tenant.
C34_NoConnectionLeftOpen ==
    \A i \in OpenConnections :
        /\ rn.conns[i].by = "reader"
        /\ rn.pc = "tenants"
        /\ rn.pending /= Nothing
        /\ rn.conns[i].tenant = rn.h

\* the connections of the writer, the cleaner and the reader, taken alone,
\* are released as C34 says
C34_WriterCleanerReaderReleased ==
    \A i \in OpenConnections :
        rn.conns[i].by \in {"reader", "writer", "cleaner", "candidates"} =>
            /\ rn.conns[i].by = "reader"
            /\ rn.pc = "tenants"
            /\ rn.pending /= Nothing
            /\ rn.conns[i].tenant = rn.h

(***************************************************************************)
(* One contact from enrich_patient_data to _save_patient_data_to_db.  The  *)
(* enrichment filter reads the clock when the contact is enriched, the     *)
(* writer's own filter when the tenant's batch is written, after the       *)
(* enrichment of every contact of the tenant.                              *)
(***************************************************************************)
\* seconds from the enrichment of the contact to its write
HandOverSeconds == 60

\* visits at the start of the enrichment window, just inside it, a day
\* old, and outside the window
HandOverTxs ==
    {Tx(DateStr("T", Now0 - 90 * SecondsPerDay), "DrA"),
     Tx(DateStr("sp", Now0 - 90 * SecondsPerDay + 30), "DrB"),
     Tx(DateStr("T", Now0 - 1 * SecondsPerDay), "DrC"),
     Tx(DateStr("T", Now0 - 91 * SecondsPerDay), "DrD")}

HandOverInit ==
    /\ \E txs \in SeqsUpTo(HandOverTxs, MaxTx) \ {<<>>},
          chat \in {{}, {Now0 - 100 * SecondsPerDay}},
          table \in {{}, {StoredRow(1, "14", 1, <<EntryNew>>)}} :
          hw = [pc |-> "enrich", now |-> Now0, seed |-> 1, app_id |-> "14",
                patient_data |-> PatientData(1),
                ext |-> [ExtGood EXCEPT !.chat = chat,
                                        !.txBody = [kind |-> "transactions",
                                                    transactions |-> txs]],
                out |-> Nothing,
                before |-> table, table |-> table,
                elapsed |-> 0, rejected |-> FALSE,
                result |-> Nothing, action |-> NONE]
    /\ rq = Parked /\ fl = Parked /\ en = Parked /\ st = Parked
    /\ pl = Parked /\ tk = Parked /\ cl = Parked /\ vi = Parked
    /\ wb = Parked /\ rn = Parked /\ ch = Parked

\* process_batch enriches the contact; a contact that is not enriched is
\* not handed to the writer
HandOverEnrich ==
    /\ hw.pc = "enrich"
    /\ LET enriched(e) ==
               hw' = [hw EXCEPT !.pc = IF e = Nothing THEN "done" ELSE "write",
                                !.out = e]
       IN enriched(EnrichPatientData(hw.patient_data, hw.app_id, hw.ext,
                                     DEFAULT_HIYS_MAX_RETRIES, hw.now))
    /\ UNCHANGED <<rq, fl, en, st, pl, tk, cl, vi, wb, rn, ch>>

\* the writer handles the contact, elapsed seconds after its enrichment
HandOverWrite(elapsed, rejected) ==
    /\ hw.pc = "write"
    /\ LET wrote(r) ==
               hw' = [hw EXCEPT !.pc = "done",
                                !.elapsed = elapsed, !.rejected = rejected,
                                !.table = r.table,
                                !.result = Some(r.result), !.action = r.action]
       IN wrote(SavePatientDataToDb(hw.table, 2, hw.now, hw.app_id, hw.out[1],
                                    hw.now + elapsed, hw.seed, rejected))
    /\ UNCHANGED <<rq, fl, en, st, pl, tk, cl, vi, wb, rn, ch>>

HandOverNext ==
    \/ HandOverEnrich
    \/ \E elapsed \in {0, HandOverSeconds}, rejected \in BOOLEAN :
          HandOverWrite(elapsed, rejected)

SpecHandOver == HandOverInit /\ [][HandOverNext]_vars

\* the writer wrote the enriched contact with all its visits
WrittenInFull ==
    /\ hw.action \in {"inserted", "updated"}
    /\ \A r \in MatchingRows(hw.table, hw.app_id, hw.patient_data.userPatientId) :
          r.toplamIslemSayisi = hw.out[1].transactionCount

\* C35: an enriched contact handed to the writer, the store accepting the
\* statement, is written as inserted or updated, never skipped, with as
\* many visits as the enrichment kept.
C35_EnrichedIsWritten ==
    (hw.pc = "done" /\ hw.result /= Nothing /\ ~hw.rejected) => WrittenInFull

\* written at the very instant of its enrichment, the contact is inserted
\* or updated with all the visits the enrichment kept
C35_WrittenAtOnceInFull ==
    (hw.pc = "done" /\ hw.result /= Nothing /\ ~hw.rejected /\ hw.elapsed = 0) =>
        WrittenInFull

\* the tenants whose cleanup raised after Phase A had deleted a row
RaisedAfterDeleting ==
    {db \in DbNameSet :
        /\ cl.modes[db] \in {"phaseB", "commit", "report"}
        /\ OldSingleTransactionRows(cl.before[db], CleanCutoff) /= {}}

\* C36: a cleanup that raises after Phase A has deleted rows is reported
\* to the cross-tenant loop as failed and leaves the tenant's store as it
\* was before the call.
C36_CleanupAllOrNothing ==
    cl.pc = "done" =>
        \A db \in RaisedAfterDeleting :
            /\ cl.db_results[db].status = "failed"
            /\ cl.tables[db] = cl.before[db]

\* a cleanup that raises in Phase B or at the commit, after Phase A has
\* deleted rows, is reported as failed and leaves the store as it was
C36_RolledBackUpToCommit ==
    cl.pc = "done" =>
        \A db \in RaisedAfterDeleting :
            cl.modes[db] /= "report" =>
                /\ cl.db_results[db].status = "failed"
                /\ cl.tables[db] = cl.before[db]

\* C37: a second cleanup of a store with the same cutoff, the first being
\* committed and nothing written in between, deletes no row, cleans no row,
\* prunes no visit and leaves the store as the first cleanup left it.
C37_SecondCleanupChangesNothing ==
    cl.pc = "again" =>
        \A db \in DbNameSet :
            /\ cl.again[1].tables[db] /= cl.tables[db] => ~Committed(db)
            /\ (Committed(db) /\ cl.again[1].modes[db] = "ok") =>
                  /\ cl.again[1].db_results[db].status = "success"
                  /\ cl.again[1].db_results[db].result =
                        Some([deleted_records |-> 0, cleaned_records |-> 0,
                              cleaned_transactions |-> 0])

\* the first cleanup deleted a row of the tenant and pruned another to one
\* undated visit; the second cleanup succeeded on what was left
C37_Witness ==
    /\ cl.pc = "again"
    /\ cl.modes["sanapratikcrm_db"] = "ok"
    /\ cl.again[1].modes["sanapratikcrm_db"] = "ok"
    /\ cl.db_results["sanapratikcrm_db"].result[1].deleted_records = 1
    /\ cl.db_results["sanapratikcrm_db"].result[1].cleaned_records = 1
    /\ \E r \in cl.tables["sanapratikcrm_db"] :
          r.toplamIslemSayisi = 1 /\ r.sonIslemTarihi = Nothing
    /\ cl.again[1].tables["sanapratikcrm_db"] = cl.tables["sanapratikcrm_db"]

\* the row holds an embedded visit with a parsable timestamp before t
HoldsVisitBefore(r, t) ==
    /\ r.transactionDetails /= Nothing
    /\ \E k \in 1..Len(r.transactionDetails[1]) :
          LET p == ParseIsoDate(r.transactionDetails[1][k].val.TransactionDate)
          IN p /= Nothing /\ p[1] < t

\* C38: after a successful cleanup of a store all rows of which the writer
\* produced, no row holds an embedded visit with a parsable timestamp
\* before the cutoff of that cleanup, and no row with visit count 1 has a
\* latest-visit date before it.
C38_NothingOlderThanCutoff ==
    (st.last.op = "cleanup" /\ ~st.last.raised) =>
        \A r \in st.table :
            /\ ~HoldsVisitBefore(r, CutoffDate(st.now))
            /\ (r.toplamIslemSayisi = 1 /\ r.sonIslemTarihi /= Nothing) =>
                  r.sonIslemTarihi[1] >= CutoffDate(st.now)

\* a cleanup has deleted a row and pruned a visit of another, which is left
\* with one visit
C38_Witness ==
    /\ st.last.op = "cleanup"
    /\ ~st.last.raised
    /\ st.last.stats.deleted_records >= 1
    /\ st.last.stats.cleaned_transactions >= 1
    /\ \E r \in st.table : r.toplamIslemSayisi = 1 /\ r.transactionDetails /= Some(<<>>)

\* the tenants with a 'success' entry in the detail of the finished run
SuccessfulTenants == {db \in DOMAIN cl.db_results : cl.db_results[db].status = "success"}

\* the sum of one figure over the 'success' entries of the detail
DetailSum(figure) ==
    SumOver(SuccessfulTenants,
            [db \in SuccessfulTenants |-> cl.db_results[db].result[1][figure]])

\* With a registry that names its stores the aggregate of
\* cleanup_all_databases agrees with its per-tenant detail: the processed
\* and failed counters add up to the number of tenants of the registry,
\* every tenant has one entry, 'success' or 'failed', and each total
\* (deleted records, cleaned records, pruned visits) is the sum of that
\* figure over the 'success' entries only.
C39_AggregateMatchesDetail ==
    cl.pc = "done" =>
        /\ cl.total_stats.processed_databases + cl.total_stats.failed_databases
              = Len(Registry)
        /\ DOMAIN cl.db_results = DbNameSet
        /\ \A db \in DbNameSet : cl.db_results[db].status \in {"success", "failed"}
        /\ cl.total_stats.processed_databases = Cardinality(SuccessfulTenants)
        /\ cl.total_stats.deleted_records = DetailSum("deleted_records")
        /\ cl.total_stats.cleaned_records = DetailSum("cleaned_records")
        /\ cl.total_stats.cleaned_transactions = DetailSum("cleaned_transactions")

\* both tenants are cleaned and both have something pruned, the first also
\* a row deleted
C39_Witness ==
    /\ cl.pc = "done"
    /\ SuccessfulTenants = DbNameSet
    /\ cl.db_results["sanapratikcrm_db"].result[1].deleted_records >= 1
    /\ cl.db_results["sanapratikcrm_db"].result[1].cleaned_transactions >= 1
    /\ cl.db_results["db15"].result[1].cleaned_transactions >= 1
    /\ cl.total_stats.cleaned_records >= 2

\* one tenant is cleaned and the other fails after its commit, its store
\* changed and none of its figures in the totals
C39_WitnessFailed ==
    /\ cl.pc = "done"
    /\ cl.db_results["sanapratikcrm_db"].status = "success"
    /\ cl.db_results["sanapratikcrm_db"].result[1].deleted_records >= 1
    /\ cl.db_results["db15"].status = "failed"
    /\ cl.tables["db15"] /= cl.before["db15"]
    /\ cl.total_stats.failed_databases = 1

\* C39: in a run of the coordinator, over whatever registry it has, the
\* aggregate of cleanup_all_databases agrees with its per-tenant detail:
\* the processed and failed counters add up to the number of tenants of the
\* registry, the detail has one entry, 'success' or 'failed', for every
\* tenant of the registry and no other, and each total is the sum of that
\* figure over the 'success' entries.
C39_AggregateMatchesRegistry ==
    rn.pc /= "off" /\ rn.cleaner /= Nothing =>
        LET c == rn.cleaner[1]
            ok == {db \in DOMAIN c.db_results : c.db_results[db].status = "success"}
            sum(figure) == SumOver(ok, [db \in ok |-> c.db_results[db].result[1][figure]])
        IN /\ c.total_stats.processed_databases + c.total_stats.failed_databases
                 = Len(rn.registry)
           /\ DOMAIN c.db_results = {rn.registry[i].dbName : i \in 1..Len(rn.registry)}
           /\ \A db \in DOMAIN c.db_results :
                 c.db_results[db].status \in {"success", "failed"}
           /\ c.total_stats.deleted_records = sum("deleted_records")
           /\ c.total_stats.cleaned_records = sum("cleaned_records")
           /\ c.total_stats.cleaned_transactions = sum("cleaned_transactions")

\* the same with the registry's tenants replaced by the stores
\* _get_hospitals_from_config names, no store being named twice
C39_AggregateMatchesStores ==
    rn.pc /= "off" /\ rn.cleaner /= Nothing =>
        LET c == rn.cleaner[1]
            db_names == GetHospitalsFromConfig(rn.registry)
            ok == {db \in DOMAIN c.db_results : c.db_results[db].status = "success"}
            sum(figure) == SumOver(ok, [db \in ok |-> c.db_results[db].result[1][figure]])
        IN /\ c.total_stats.processed_databases + c.total_stats.failed_databases
                 = Len(db_names)
           /\ DOMAIN c.db_results = {db_names[i] : i \in 1..Len(db_names)}
           /\ \A db \in DOMAIN c.db_results :
                 c.db_results[db].status \in {"success", "failed"}
           /\ c.total_stats.deleted_records = sum("deleted_records")
           /\ c.total_stats.cleaned_records = sum("cleaned_records")
           /\ c.total_stats.cleaned_transactions = sum("cleaned_transactions")

====
